---- MODULE Spec2Model ----
(***************************************************************************)
(* The "naive state machine" engine of                                     *)
(* _posts/2024-10-17-naive-state-machine.md: machine types declared with   *)
(* @action / @reaction, instances wired by register/subscribe, and the     *)
(* synchronous dispatch of internal and external events.                   *)
(*                                                                         *)
(* Python runs the engine on one call stack.  The model keeps that stack   *)
(* explicitly (variable stack, top = last element); every step below is    *)
(* one stretch of straight-line code of the frame on top of the stack.     *)
(***************************************************************************)
EXTENDS Integers, Sequences, FiniteSets, TLC

(***************************************************************************)
(* Bounds of the exploration.                                              *)
(***************************************************************************)
MaxCalls == 2        \* top-level action invocations made by the driver
MaxAttrs == 3        \* attributes in the body of a class statement
MaxInstances == 1    \* instances made of the class of a class statement
MaxDepth == 20       \* frames on the call stack under a scripted driver

(***************************************************************************)
(* Values.                                                                 *)
(***************************************************************************)
None == "None"

\* Optional[Set[State]]: a guard set that is absent (None) or present.
Absent == [present |-> FALSE, set |-> {}]
Given(S) == [present |-> TRUE, set |-> S]

\* class Transition
Transition(src, dst, bidi) == [source |-> src, destination |-> dst, bidirectional |-> bidi]

\* class Event (meta, the keyword arguments of the call, is not modelled:
\* the engine only copies it)
Event(name, source, state) == [name |-> name, source |-> source, state |-> state]

TrafficLightState == {"GREEN", "YELLOW", "RED"}
CyclistState == {"CYCLING", "Cyclist.STOPPED"}
PoliceCarState == {"ROLLING", "PoliceCar.STOPPED", "CHASING"}
GateState == {"UP", "DOWN", "LOCKED"}
RiderState == {"Rider.STOPPED", "Rider.CYCLING"}
MachineAState == {"X", "Y"}
MachineBState == {"P", "Q"}
BarrierState == {"OPEN", "CLOSED"}
LeaderState == {"L0", "L1", "L2"}
FollowerState == {"F0", "F1"}

(***************************************************************************)
(* Declarations of the machine types: the class bodies.  An action is      *)
(* action(state, broadcast, when, unless) on a body; a reaction is         *)
(* reaction(state, when, unless) on a body.  The bodies of the post's      *)
(* actions are "..."; a reaction body is the sequence of actions of the    *)
(* own instance that it invokes.                                           *)
(***************************************************************************)
ActionDecl(name, state, broadcast, when, unless) ==
    [name |-> name, state |-> state, broadcast |-> broadcast, when |-> when, unless |-> unless]

ReactionDecl(name, state, when, unless, body) ==
    [name |-> name, state |-> state, when |-> when, unless |-> unless, body |-> body]

TrafficLight ==
    [transitions |-> << Transition("GREEN", "YELLOW", FALSE),
                        Transition("YELLOW", "RED", FALSE),
                        Transition("RED", "GREEN", FALSE) >>,
     actions |-> << ActionDecl("green", "GREEN", TRUE, Absent, Absent),
                    ActionDecl("yellow", "YELLOW", TRUE, Absent, Absent),
                    ActionDecl("red", "RED", TRUE, Absent, Absent) >>,
     reactions |-> << >>]

Cyclist ==
    [transitions |-> << Transition("Cyclist.STOPPED", "CYCLING", FALSE),
                        Transition("CYCLING", "Cyclist.STOPPED", FALSE) >>,
     actions |-> << ActionDecl("cycle_fast", "CYCLING", FALSE,
                               Given({"GREEN", "YELLOW"}), Given({"CHASING"})),
                    ActionDecl("cycle_slow", "CYCLING", FALSE,
                               Given({"GREEN"}), Given({"CHASING"})),
                    ActionDecl("stop", "Cyclist.STOPPED", FALSE, Absent, Absent) >>,
     reactions |-> << ReactionDecl("on_green_light", "GREEN", Absent, Absent, << "cycle_slow" >>),
                      ReactionDecl("on_red_light", "RED", Absent, Absent, << "stop" >>),
                      ReactionDecl("on_being_chased", "CHASING", Absent, Absent, << "stop" >>) >>]

PoliceCar ==
    [transitions |-> << Transition("ROLLING", "PoliceCar.STOPPED", TRUE),
                        Transition("ROLLING", "CHASING", TRUE),
                        Transition("PoliceCar.STOPPED", "CHASING", TRUE) >>,
     actions |-> << ActionDecl("chase", "CHASING", TRUE, Absent, Absent),
                    ActionDecl("roll", "ROLLING", TRUE, Absent, Absent),
                    ActionDecl("stop", "PoliceCar.STOPPED", FALSE, Absent, Absent) >>,
     reactions |-> << ReactionDecl("on_green_light", "GREEN", Absent, Given({"CHASING"}), << "roll" >>),
                      ReactionDecl("on_red_light", "RED", Absent, Given({"CHASING"}), << "stop" >>) >>]

\* A machine type written against the same decorators, with the guard shapes
\* the post's three types do not use: `when` alone, `unless` alone on an
\* action, the same state in both, and a one-way edge into a dead end.
Gate ==
    [transitions |-> << Transition("UP", "DOWN", TRUE),
                        Transition("DOWN", "LOCKED", FALSE) >>,
     actions |-> << ActionDecl("lower", "DOWN", TRUE, Absent, Absent),
                    ActionDecl("lift", "UP", FALSE, Given({"GREEN", "DOWN"}), Absent),
                    ActionDecl("lock", "LOCKED", TRUE, Absent, Given({"RED", "UP"})),
                    ActionDecl("reset", "UP", TRUE, Given({"DOWN"}), Given({"DOWN"})) >>,
     reactions |-> << ReactionDecl("on_red_light", "RED", Given({"UP"}), Absent, << "lower" >>),
                      ReactionDecl("on_green_light", "GREEN", Absent, Given({"LOCKED"}), << "lift" >>),
                      ReactionDecl("on_yellow_light", "YELLOW", Absent, Absent, << "lift", "lower" >>),
                      ReactionDecl("on_locked", "LOCKED", Absent, Absent, << "lift" >>) >>]

\* The machine type of a rider that follows a light: STOPPED <-> CYCLING, it
\* enters CYCLING on GREEN and STOPPED on RED and has no reaction to YELLOW.
\* (The light it follows, with the cycle GREEN -> YELLOW -> RED -> GREEN and
\* every action broadcast, is TrafficLight.)
Rider ==
    [transitions |-> << Transition("Rider.STOPPED", "Rider.CYCLING", TRUE) >>,
     actions |-> << ActionDecl("cycle", "Rider.CYCLING", FALSE, Absent, Absent),
                    ActionDecl("stop", "Rider.STOPPED", FALSE, Absent, Absent) >>,
     reactions |-> << ReactionDecl("on_green_light", "GREEN", Absent, Absent, << "cycle" >>),
                      ReactionDecl("on_red_light", "RED", Absent, Absent, << "stop" >>) >>]

\* Two machine types made to react to each other: every action is broadcast
\* and every reaction calls one.  A: X <-> Y, to X on Q and to Y on P;
\* B: P <-> Q, to Q on Y and to P on X.
MachineA ==
    [transitions |-> << Transition("X", "Y", TRUE) >>,
     actions |-> << ActionDecl("to_x", "X", TRUE, Absent, Absent),
                    ActionDecl("to_y", "Y", TRUE, Absent, Absent) >>,
     reactions |-> << ReactionDecl("on_q", "Q", Absent, Absent, << "to_x" >>),
                      ReactionDecl("on_p", "P", Absent, Absent, << "to_y" >>) >>]

MachineB ==
    [transitions |-> << Transition("P", "Q", TRUE) >>,
     actions |-> << ActionDecl("to_p", "P", TRUE, Absent, Absent),
                    ActionDecl("to_q", "Q", TRUE, Absent, Absent) >>,
     reactions |-> << ReactionDecl("on_y", "Y", Absent, Absent, << "to_q" >>),
                      ReactionDecl("on_x", "X", Absent, Absent, << "to_p" >>) >>]

\* A machine type whose guards name the very state that triggers the
\* reaction (unless = {RED} on RED, when = {GREEN} on GREEN) or are the
\* empty set (when = set() on YELLOW and on the action open).
Barrier ==
    [transitions |-> << Transition("OPEN", "CLOSED", TRUE) >>,
     actions |-> << ActionDecl("open", "OPEN", FALSE, Given({}), Absent),
                    ActionDecl("close", "CLOSED", FALSE, Absent, Absent) >>,
     reactions |-> << ReactionDecl("on_red_light", "RED", Absent, Given({"RED"}), << "close" >>),
                      ReactionDecl("on_green_light", "GREEN", Given({"GREEN"}), Absent,
                                   << "close" >>),
                      ReactionDecl("on_yellow_light", "YELLOW", Given({}), Absent,
                                   << "open" >>) >>]

\* Two machine types in a cycle that ends: a leader that steps L0 -> L1 -> L2
\* and takes its second step when a follower has followed, and a follower
\* that follows when the leader has taken its first step.
Leader ==
    [transitions |-> << Transition("L0", "L1", FALSE), Transition("L1", "L2", FALSE) >>,
     actions |-> << ActionDecl("step1", "L1", TRUE, Absent, Absent),
                    ActionDecl("step2", "L2", TRUE, Absent, Absent) >>,
     reactions |-> << ReactionDecl("on_followed", "F1", Absent, Absent, << "step2" >>) >>]

Follower ==
    [transitions |-> << Transition("F0", "F1", FALSE) >>,
     actions |-> << ActionDecl("follow", "F1", TRUE, Absent, Absent) >>,
     reactions |-> << ReactionDecl("on_first_step", "L1", Absent, Absent, << "follow" >>) >>]

MachineTypes ==
    [TrafficLight |-> TrafficLight, Cyclist |-> Cyclist, PoliceCar |-> PoliceCar, Gate |-> Gate,
     Rider |-> Rider, MachineA |-> MachineA, MachineB |-> MachineB, Barrier |-> Barrier,
     Leader |-> Leader, Follower |-> Follower]

StatesOf ==
    [TrafficLight |-> TrafficLightState, Cyclist |-> CyclistState,
     PoliceCar |-> PoliceCarState, Gate |-> GateState, Rider |-> RiderState,
     MachineA |-> MachineAState, MachineB |-> MachineBState, Barrier |-> BarrierState,
     Leader |-> LeaderState, Follower |-> FollowerState]

\* The instances a driving scenario may construct, and the class of each.
Instances == {"trafficlight", "cyclist", "policecar", "gate1", "gate2", "rider", "a", "b",
              "barrier", "leader", "follower1", "follower2"}

TypeOf ==
    [trafficlight |-> "TrafficLight", cyclist |-> "Cyclist", policecar |-> "PoliceCar",
     gate1 |-> "Gate", gate2 |-> "Gate", rider |-> "Rider", a |-> "MachineA", b |-> "MachineB",
     barrier |-> "Barrier", leader |-> "Leader", follower1 |-> "Follower",
     follower2 |-> "Follower"]

Range(s) == {s[k] : k \in DOMAIN s}

\* The wiring calls a driving scenario makes, as << instance, argument list >>:
\* those of the post's scenarios A and B; the gates subscribe to the traffic
\* light, and the first gate registers itself and the second gate as its
\* consumers.
Subscriptions ==
    { << "cyclist", << "trafficlight" >> >>,
      << "policecar", << "trafficlight" >> >>,
      << "gate1", << "trafficlight" >> >>,
      << "gate2", << "trafficlight" >> >> }

Registrations ==
    { << "policecar", << "cyclist" >> >>,
      << "gate1", << "gate1", "gate2" >> >> }

\* The sets of instances a scenario constructs.
Worlds == { {"trafficlight", "cyclist", "policecar"}, {"trafficlight", "gate1", "gate2"} }

(***************************************************************************)
(* What the metaclass and the constructor derive from a declaration.       *)
(***************************************************************************)
\* transitions_map built without the reverse entries of bidirectional transitions
TransitionsMapOneWay(type) ==
    LET ts == Range(MachineTypes[type].transitions)
    IN  [s \in StatesOf[type] |-> {t.destination : t \in {u \in ts : u.source = s}}]

\* transitions_map built with a reverse entry for every transition
TransitionsMapBothWays(type) ==
    LET ts == Range(MachineTypes[type].transitions)
    IN  [s \in StatesOf[type] |->
            {t.destination : t \in {u \in ts : u.source = s}}
            \cup {t.source : t \in {u \in ts : u.destination = s}}]

\* StateMachine.__init__: transitions_map, source -> destinations, with the
\* reverse entry for a bidirectional transition.
TransitionsMap(type) ==
    LET ts == Range(MachineTypes[type].transitions)
    IN  [s \in StatesOf[type] |->
            {t.destination : t \in {u \in ts : u.source = s}}
            \cup {t.source : t \in {u \in ts : u.bidirectional /\ u.destination = s}}]

\* broadcast_events holding every action, whatever its broadcast flag
BroadcastEventsAll(type) == {a.name : a \in Range(MachineTypes[type].actions)}

\* StateMachineMeta.__new__: the names of the actions declared broadcast=True.
BroadcastEvents(type) ==
    {a.name : a \in {b \in Range(MachineTypes[type].actions) : b.broadcast}}

\* reactions_to_state answering for every state of the traffic light: a state
\* without a reaction of its own falls back to the first reaction declared
ReactionsToStateFallback(type) ==
    LET rs == MachineTypes[type].reactions
    IN  [s \in (IF rs = << >> THEN {} ELSE TrafficLightState) \cup {r.state : r \in Range(rs)} |->
            IF \E r \in Range(rs) : r.state = s
            THEN CHOOSE r \in Range(rs) : r.state = s
            ELSE rs[1]]

\* StateMachineMeta.__new__: reactions_to_state, trigger state -> reaction.
ReactionsToState(type) ==
    LET rs == Range(MachineTypes[type].reactions)
    IN  [s \in {r.state : r \in rs} |-> CHOOSE r \in rs : r.state = s]

ActionNames(type) == {a.name : a \in Range(MachineTypes[type].actions)}

ActionOf(type, name) == CHOOSE a \in Range(MachineTypes[type].actions) : a.name = name

(***************************************************************************)
(* The state of the program.                                               *)
(***************************************************************************)
VARIABLES
    live,         \* the instances the driver has constructed
    state,        \* self.state of each instance
    publishers,   \* self.publishers: publisher -> last recorded state
    consumers,    \* self.consumers
    events,       \* self.events, the log
    effects,      \* what the action bodies did: how often each instance's bodies ran
    stack,        \* the Python call stack of the engine, top last
    ncalls,       \* top-level action invocations made so far
    call,         \* history: the top-level operation in progress or just ended
    trace,        \* history: what the engine did during that operation, in order
    run,          \* the driver, when it is a script run(): the script and the position in it
    namespace,    \* the body of a class statement handed to StateMachineMeta
    cls           \* the class StateMachineMeta.__new__ has made of it

vars == << live, state, publishers, consumers, events, effects, stack, ncalls, call, trace,
           run, namespace, cls >>

\* the variables of the instances and of the engine
machines == << live, state, publishers, consumers, events, effects, stack, ncalls, call, trace >>

\* the variables of a class statement
classes == << namespace, cls >>

\* No script: the driver makes whatever calls it likes.
NoRun == [scenario |-> None, pc |-> 0]

\* No class statement is being executed.
NoClass == [status |-> None, broadcast_events |-> << >>, reactions_to_state |-> << >>,
            instances |-> 0]

NoEvent == Event(None, None, None)

\* A frame of the stack: a call on instance `self` of an action wrapper
\* (k = "action"), of process_event (k = "process", with the event; while it
\* runs publish_event, `pending` holds the consumers still to be served) or
\* of a reaction wrapper (k = "reaction", with the event and the calls its
\* body has still to make).  pc = "done": the frame has nothing left to do
\* once the call it made returns.
Frame(kind, i, name, pc, ev) ==
    [k |-> kind, self |-> i, name |-> name, pc |-> pc, event |-> ev,
     pending |-> {}, calls |-> << >>]

Top == stack[Len(stack)]
Pop(stk) == SubSeq(stk, 1, Len(stk) - 1)
\* the stack with its top frame replaced
Swap(stk, f) == [stk EXCEPT ![Len(stk)] = f]

\* One entry of trace: frame number `depth` of the stack, a call on instance
\* i, did `op` for the action, reaction or event `name`.
Step(op, depth, i, name, source, st, from, ok) ==
    [op |-> op, depth |-> depth, self |-> i, name |-> name, source |-> source,
     state |-> st, from |-> from, ok |-> ok]

\* a frame that has run to its end staying on the stack: no call returns
SettleNever(stk) == stk

RECURSIVE Settle(_)
\* A frame that has run to its end returns to its caller, which goes on from
\* where it made the call: the stack without the finished frames on top.
Settle(stk) ==
    IF stk # << >> /\ stk[Len(stk)].pc = "done" THEN Settle(Pop(stk)) ELSE stk

RECURSIVE Returns(_)
\* The returns Settle makes, innermost frame first.
Returns(stk) ==
    IF stk # << >> /\ stk[Len(stk)].pc = "done"
    THEN << Step("return", Len(stk), stk[Len(stk)].self, stk[Len(stk)].name, None, None,
                 None, TRUE) >>
         \o Returns(Pop(stk))
    ELSE << >>

Snapshot == [state |-> state, publishers |-> publishers, consumers |-> consumers,
             events |-> events, effects |-> effects]

\* A dict: a function on the keys it holds.
EmptyDict == [k \in {} |-> None]

\* d[k] = v
Put(d, k, v) == [x \in DOMAIN d \cup {k} |-> IF x = k THEN v ELSE d[x]]

\* the observed states without the publishers' recorded states
StatesOwnOnly(pubs, st) == {st}

\* set(list(self.publishers.values()) + [self.state]), for an instance with
\* the publishers dict pubs and the current state st
States(pubs, st) == Range(pubs) \cup {st}

ObservedStates(i) == States(publishers[i], state[i])

\* `if when and ...`: a guard set counts when it is truthy, that is neither
\* None nor empty.
Truthy(g) == g.present /\ g.set # {}

\* `when` asking for all of its states to be observed instead of any
WhenRejectsUnlessAll(when, states) == Truthy(when) /\ ~(when.set \subseteq states)

WhenRejects(when, states) == Truthy(when) /\ when.set \cap states = {}

\* `unless` blocking only when all of its states are observed instead of any
UnlessRejectsOnlyAll(unless, states) == Truthy(unless) /\ unless.set \subseteq states

\* the wrapper without its `unless` check
UnlessRejectsNever(unless, states) == FALSE

UnlessRejects(unless, states) == Truthy(unless) /\ unless.set \cap states # {}

\* a satisfied `when` letting the call through without a look at `unless`
GuardPassesWhenWins(d, states) ==
    IF Truthy(d.when) THEN ~WhenRejects(d.when, states) ELSE ~UnlessRejects(d.unless, states)

\* action.wrapper / reaction.wrapper: `when` is checked first, then `unless`
GuardPasses(d, states) == ~WhenRejects(d.when, states) /\ ~UnlessRejects(d.unless, states)

(***************************************************************************)
(* Construction.  StateMachine.__init__ takes any initial state and        *)
(* starts with no consumers, no publishers and an empty log.               *)
(***************************************************************************)
Construct(L) ==
    /\ live = L
    /\ state \in [L -> UNION {StatesOf[t] : t \in DOMAIN StatesOf}]
    /\ \A i \in L : state[i] \in StatesOf[TypeOf[i]]
    /\ publishers = [i \in L |-> EmptyDict]
    /\ consumers = [i \in L |-> {}]
    /\ events = [i \in L |-> << >>]
    /\ effects = [i \in L |-> 0]
    /\ stack = << >>
    /\ ncalls = 0
    /\ call = [op |-> None, self |-> None, name |-> None, args |-> << >>, status |-> None,
               snap |-> None]
    /\ trace = << >>

Init ==
    /\ \E L \in Worlds : Construct(L)
    /\ run = NoRun
    /\ namespace = << >>
    /\ cls = NoClass

\* process_event logging only what may change the instance: an internal
\* event whose target is the current state is not appended
AppendedUnlessNoOp(i, ev) ==
    IF ev.source = i /\ ev.state = state[i] THEN events
    ELSE [events EXCEPT ![i] = Append(@, ev)]

\* process_event appending to one list held by the class: the event enters
\* the log of every instance of the class
AppendedToClassLog(i, ev) ==
    [j \in live |-> IF TypeOf[j] = TypeOf[i] THEN Append(events[j], ev) ELSE events[j]]

\* process_event: self.events.append(event)
Appended(i, ev) == [events EXCEPT ![i] = Append(@, ev)]

(***************************************************************************)
(* The engine.  Each step runs the frame on top of the stack up to its     *)
(* next call of process_event or to a raise; frames that have run to their *)
(* end return within the step.                                             *)
(***************************************************************************)
\* The step started from history (c, tr), leaves the stack stk and has done
\* `steps`; when the bottom frame has returned, the driver's call has.
Continue(c, tr, stk, steps) ==
    /\ stack' = Settle(stk)
    /\ trace' = tr \o steps \o Returns(stk)
    /\ call' = [c EXCEPT !.status = IF Settle(stk) = << >> THEN "returned" ELSE "running"]

\* function(self, **kwargs) called ahead of the guard checks
BodyRunsUnguarded(i, d, ok) == 1

\* function(self, **kwargs) called after self.process_event(...): an illegal
\* transition raises before the body has run
BodyRunsIfLegal(i, d, ok) ==
    IF ok /\ (d.state = state[i] \/ d.state \in TransitionsMap(TypeOf[i])[state[i]])
    THEN 1 ELSE 0

\* action.wrapper: how often the call of the action with declaration d on
\* instance i runs function(self, **kwargs) before it calls process_event;
\* ok is the outcome of the guard checks.
BodyRuns(i, d, ok) == IF ok THEN 1 ELSE 0

\* action.wrapper, called on instance i from the frames stk: the two guard
\* checks (a rejected call prints a diagnostic and returns), then
\* function(self, **kwargs), then self.process_event(Event(name, self, state)).
Wrapper(c, tr, stk, steps, i, name) ==
    LET d == ActionOf(TypeOf[i], name)
        ok == GuardPasses(d, ObservedStates(i))
        n == Len(stk) + 1
        ran == BodyRuns(i, d, ok)
        guard == Step("guard", n, i, name, None, d.state, state[i], ok)
        body == Step("body", n, i, name, None, d.state, state[i], TRUE)
        done == steps \o << guard >> \o (IF ran > 0 THEN << body >> ELSE << >>)
    IN  /\ effects' = [effects EXCEPT ![i] = @ + ran]
        /\ IF ok
           THEN Continue(c, tr,
                         stk \o << Frame("action", i, name, "done", NoEvent),
                                   Frame("process", i, name, "start", Event(name, i, d.state)) >>,
                         done)
           ELSE Continue(c, tr, Append(stk, Frame("action", i, name, "done", NoEvent)), done)

\* _process_internal_event without the early return for target == self.state
OutcomeNoEarlyReturn(i, target) ==
    IF target \in TransitionsMap(TypeOf[i])[state[i]] THEN "transition" ELSE "raise"

\* _process_internal_event checking the target against the state the
\* instance held when the driver made its call, not against self.state
OutcomeFromStateAtCall(i, target) ==
    IF call.snap.state[i] = target THEN "noop"
    ELSE IF target \in TransitionsMap(TypeOf[i])[call.snap.state[i]] THEN "transition"
    ELSE "raise"

\* _process_internal_event: what becomes of an internal event with the
\* given target state on instance i.
Outcome(i, target) ==
    IF state[i] = target THEN "noop"
    ELSE IF target \in TransitionsMap(TypeOf[i])[state[i]] THEN "transition"
    ELSE "raise"

\* publish_event leaving its loop after the first consumer
RecipientsFirstOnly(i) ==
    IF consumers[i] = {} THEN {} ELSE {CHOOSE c \in consumers[i] : TRUE}

\* publish_event with a guard against re-entrancy: a consumer that has a call
\* in progress is skipped
RecipientsNotOnStack(i) == {c \in consumers[i] : \A m \in DOMAIN stack : stack[m].self # c}

\* publish_event: `for consumer in self.consumers`
Recipients(i) == consumers[i]

\* publish_event catching the error of a consumer and going on with the
\* next one: the frames above the innermost publish_event are left
UnwindToPublisher(stk) ==
    LET P == {m \in 1..(Len(stk) - 1) : stk[m].k = "process" /\ stk[m + 1].k = "process"}
    IN  IF P = {} THEN << >>
        ELSE Settle(SubSeq(stk, 1, CHOOSE m \in P : \A x \in P : x <= m))

\* `raise TransitionError(...)` with the frames stk on the stack: no frame of
\* the engine has a handler, every one of them is left.
Unwind(stk) == << >>

\* process_event taking an event for internal only when the action wrapper
\* made the call: an event that publish_event brings is external, whatever
\* its source
InternalIfOwnCall(f) ==
    f.event.source = f.self /\ stack[Len(stack) - 1].k = "action"

\* process_event: `if event.source == self`
Internal(f) == f.event.source = f.self

\* a TransitionError undoing what the call has done so far: every instance
\* is put back to the state it had when the driver made the call
RolledBackOnRaise(st) == call.snap.state

\* raise TransitionError(...): the states assigned before the raise stay as
\* they are; no handler in the engine restores anything
KeptOnRaise(st) == st

\* process_event with event.source == self, and _process_internal_event:
\* nothing to do, or the transition (and the start of publish_event for a
\* broadcast action), or TransitionError, which nothing in the engine catches.
ProcessInternal ==
    /\ stack # << >>
    /\ Top.k = "process" /\ Top.pc = "start" /\ Internal(Top)
    /\ LET f == Top
           i == f.self
           n == Len(stack)
           target == f.event.state
           done == Swap(stack, [f EXCEPT !.pc = "done"])
       IN  /\ events' = Appended(i, f.event)
           /\ IF Outcome(i, target) = "noop"
              THEN /\ Continue(call, trace, done,
                               << Step("noop", n, i, f.event.name, i, target, state[i], TRUE) >>)
                   /\ UNCHANGED state
              ELSE IF Outcome(i, target) = "transition"
              THEN /\ state' = [state EXCEPT ![i] = target]
                   /\ IF f.event.name \in BroadcastEvents(TypeOf[i])
                      THEN Continue(call, trace,
                                Swap(stack,
                                  [f EXCEPT !.pc = IF Recipients(i) = {} THEN "done" ELSE "publish",
                                            !.event = Event(f.event.name, i, target),
                                            !.pending = Recipients(i)]),
                                << Step("transition", n, i, f.event.name, i, target, state[i], TRUE),
                                   Step("publish", n, i, f.event.name, i, target, state[i], TRUE) >>)
                      ELSE Continue(call, trace, done,
                                << Step("transition", n, i, f.event.name, i, target, state[i],
                                        TRUE) >>)
              ELSE /\ stack' = Unwind(stack)
                   /\ call' = [call EXCEPT !.status = IF Unwind(stack) = << >> THEN "raised"
                                                      ELSE "running"]
                   /\ trace' = Append(trace, Step("raise", n, i, f.event.name, i, target,
                                                  state[i], FALSE))
                   /\ state' = KeptOnRaise(state)
    /\ UNCHANGED << live, publishers, consumers, effects, ncalls, run, classes >>

\* publish_event handing the event to two consumers before either handles
\* it: the event is queued for c and for one more pending consumer, and the
\* two process it afterwards
DeliverQueued(f, c) ==
    LET others == f.pending \ {c}
        o == CHOOSE x \in others : TRUE
        rest == others \ {o}
        deliver(x) == Step("deliver", Len(stack), x, f.event.name, f.self, f.event.state,
                           state[x], TRUE)
        process(x) == Frame("process", x, f.event.name, "start", f.event)
    IN  IF others = {}
        THEN << Append(Swap(stack, [f EXCEPT !.pending = {}, !.pc = "done"]), process(c)),
                << deliver(c) >> >>
        ELSE << Swap(stack, [f EXCEPT !.pending = rest,
                                      !.pc = IF rest = {} THEN "done" ELSE "publish"])
                \o << process(o), process(c) >>,
                << deliver(c), deliver(o) >> >>

\* publish_event, one turn of the loop: consumer.process_event(event) is
\* called, and the loop goes on when the call has returned.  The result is
\* the pair << stack, entries of trace >>.
Deliver(f, c) ==
    LET rest == f.pending \ {c}
    IN  << Append(Swap(stack, [f EXCEPT !.pending = rest,
                                        !.pc = IF rest = {} THEN "done" ELSE "publish"]),
                  Frame("process", c, f.event.name, "start", f.event)),
           << Step("deliver", Len(stack), c, f.event.name, f.self, f.event.state,
                   state[c], TRUE) >> >>

\* publish_event: one turn of `for consumer in self.consumers`, in whatever
\* order the set yields its members: consumer.process_event(event).
Publish(c) ==
    /\ stack # << >>
    /\ Top.k = "process" /\ Top.pc = "publish"
    /\ c \in Top.pending
    /\ Continue(call, trace, Deliver(Top, c)[1], Deliver(Top, c)[2])
    /\ UNCHANGED << live, state, publishers, consumers, events, effects, ncalls, run, classes >>

\* the source's state recorded only when a reaction is registered for it
RecordedIfReaction(i, ev) ==
    IF ev.state \in DOMAIN ReactionsToState(TypeOf[i])
    THEN Put(publishers[i], ev.source, ev.state)
    ELSE publishers[i]

\* the source's state recorded only for a source that has an entry already
RecordedIfKnown(i, ev) ==
    IF ev.source \in DOMAIN publishers[i] THEN Put(publishers[i], ev.source, ev.state)
    ELSE publishers[i]

\* the source's state recorded, and every other recorded state brought up to
\* date with its publisher
RecordedRefreshAll(i, ev) ==
    [x \in DOMAIN publishers[i] \cup {ev.source} |->
        IF x = ev.source THEN ev.state ELSE state[x]]

\* _process_external_event: self.publishers[event.source] = event.state
Recorded(i, ev) == Put(publishers[i], ev.source, ev.state)

\* the reaction's guard looking at the states observed before the source's
\* new state is recorded
ReactionStatesBeforeRecord(i, ev) == States(publishers[i], state[i])

\* reaction.wrapper, called by _process_external_event after
\* self.publishers[event.source] = event.state:
\* states = set(list(self.publishers.values()) + [self.state])
ReactionStates(i, ev) == States(Recorded(i, ev), state[i])

\* _process_external_event passing the event on to self.consumers once the
\* reaction, if any, has returned
ExternalProcessedThenRelayed(f) ==
    [f EXCEPT !.pc = IF Recipients(f.self) = {} THEN "done" ELSE "publish",
              !.pending = Recipients(f.self)]

\* _process_external_event: after `if reaction_fn: reaction_fn(self, event)`
\* the function ends, and process_event with it
ExternalProcessed(f) == [f EXCEPT !.pc = "done"]

\* process_event with event.source another instance, and
\* _process_external_event: record the source's state, then call the
\* reaction registered for that state, if any: reaction.wrapper makes the two
\* guard checks and, when they pass, enters function(self, event).
ProcessExternal ==
    /\ stack # << >>
    /\ Top.k = "process" /\ Top.pc = "start" /\ ~Internal(Top)
    /\ LET f == Top
           i == f.self
           n == Len(stack)
           rts == ReactionsToState(TypeOf[i])
           found == f.event.state \in DOMAIN rts
           r == rts[f.event.state]
           recorded == Recorded(i, f.event)
           ok == GuardPasses(r, ReactionStates(i, f.event))
           done == Swap(stack, ExternalProcessed(f))
           external == Step("external", n, i, f.event.name, f.event.source, f.event.state,
                            state[i], found)
       IN  /\ events' = Appended(i, f.event)
           /\ publishers' = [publishers EXCEPT ![i] = recorded]
           /\ IF ~found
              THEN Continue(call, trace, done, << external >>)
              ELSE Continue(call, trace,
                       Append(done, [Frame("reaction", i, r.name, "body", f.event)
                                       EXCEPT !.pc = IF ok /\ r.body # << >> THEN "body" ELSE "done",
                                              !.calls = IF ok THEN r.body ELSE << >>]),
                       << external,
                          Step("guard", n + 1, i, r.name, f.event.source, f.event.state,
                               state[i], ok) >>
                       \o IF ok THEN << Step("react", n + 1, i, r.name, f.event.source,
                                             f.event.state, state[i], TRUE) >>
                          ELSE << >>)
    /\ UNCHANGED << live, state, consumers, effects, ncalls, run, classes >>

\* The body of a reaction calls the next action of its own instance.
React ==
    /\ stack # << >>
    /\ Top.k = "reaction" /\ Top.pc = "body"
    /\ LET f == Top
       IN  Wrapper(call, trace,
                   Swap(stack, [f EXCEPT !.calls = Tail(f.calls),
                                         !.pc = IF Tail(f.calls) = << >> THEN "done" ELSE "body"]),
                   << >>, f.self, Head(f.calls))
    /\ UNCHANGED << live, state, publishers, consumers, events, ncalls, run, classes >>

(***************************************************************************)
(* The driver: wiring and top-level action calls, made while no call is    *)
(* in progress.                                                            *)
(***************************************************************************)
RECURSIVE RegisterAllToggle(_, _, _)
\* register toggling membership: a consumer that is registered already is
\* taken out of the set
RegisterAllToggle(cons, i, cs) ==
    IF cs = << >> THEN cons
    ELSE RegisterAllToggle(
             [cons EXCEPT ![i] = IF Head(cs) \in @ THEN @ \ {Head(cs)} ELSE @ \cup {Head(cs)}],
             i, Tail(cs))

RECURSIVE RegisterAll(_, _, _)
\* StateMachine.register: self.consumers.add(consumer) for each consumer
RegisterAll(cons, i, cs) ==
    IF cs = << >> THEN cons
    ELSE RegisterAll([cons EXCEPT ![i] = @ \cup {Head(cs)}], i, Tail(cs))

\* the driver calls i.register(cs)
RegisterCall(i, cs) ==
    /\ stack = << >>
    /\ {i} \cup Range(cs) \subseteq live
    /\ consumers' = RegisterAll(consumers, i, cs)
    /\ call' = [op |-> "register", self |-> i, name |-> None, args |-> cs, status |-> "returned",
                snap |-> None]
    /\ trace' = << >>
    /\ UNCHANGED << live, state, publishers, events, effects, stack, ncalls, classes >>

Register(i, cs) == RegisterCall(i, cs) /\ UNCHANGED run

RECURSIVE SubscribeAllMutual(_, _, _)
\* subscribe registering in both directions: the publisher becomes a
\* consumer of self as well
SubscribeAllMutual(pc, i, ps) ==
    IF ps = << >> THEN pc
    ELSE LET p == Head(ps)
         IN  SubscribeAllMutual(<< [pc[1] EXCEPT ![i] = Put(@, p, state[p])],
                                   RegisterAll(RegisterAll(pc[2], p, << i >>), i, << p >>) >>,
                                i, Tail(ps))

RECURSIVE SubscribeAllKeepRecorded(_, _, _)
\* subscribe recording the publisher's state with setdefault: a state
\* recorded earlier is kept
SubscribeAllKeepRecorded(pc, i, ps) ==
    IF ps = << >> THEN pc
    ELSE LET p == Head(ps)
         IN  SubscribeAllKeepRecorded(
                 << [pc[1] EXCEPT ![i] = IF p \in DOMAIN @ THEN @ ELSE Put(@, p, state[p])],
                    RegisterAll(pc[2], p, << i >>) >>, i, Tail(ps))

RECURSIVE SubscribeAll(_, _, _)
\* StateMachine.subscribe: for each publisher, record its current state and
\* register self with it.  The result is the pair << publishers, consumers >>.
SubscribeAll(pc, i, ps) ==
    IF ps = << >> THEN pc
    ELSE LET p == Head(ps)
         IN  SubscribeAll(<< [pc[1] EXCEPT ![i] = Put(@, p, state[p])],
                             RegisterAll(pc[2], p, << i >>) >>, i, Tail(ps))

\* the driver calls i.subscribe(ps)
SubscribeCall(i, ps) ==
    /\ stack = << >>
    /\ {i} \cup Range(ps) \subseteq live
    /\ LET r == SubscribeAll(<< publishers, consumers >>, i, ps)
       IN  /\ publishers' = r[1]
           /\ consumers' = r[2]
    /\ call' = [op |-> "subscribe", self |-> i, name |-> None, args |-> ps, status |-> "returned",
                snap |-> None]
    /\ trace' = << >>
    /\ UNCHANGED << live, state, events, effects, stack, ncalls, classes >>

Subscribe(i, ps) == SubscribeCall(i, ps) /\ UNCHANGED run

\* The driver calls instance.<name>(): the wrapper made by @action runs.
ActionCall(i, name) ==
    /\ stack = << >>
    /\ ncalls' = ncalls + 1
    /\ Wrapper([op |-> "action", self |-> i, name |-> name, args |-> << >>,
                status |-> "running", snap |-> Snapshot],
               << >>, << >>, << >>, i, name)
    /\ UNCHANGED << live, state, publishers, consumers, events, classes >>

Invoke(i, name) ==
    /\ ncalls < MaxCalls
    /\ ActionCall(i, name)
    /\ UNCHANGED run

Next ==
    \/ \E w \in Registrations : Register(w[1], w[2])
    \/ \E w \in Subscriptions : Subscribe(w[1], w[2])
    \/ \E i \in live : \E name \in ActionNames(TypeOf[i]) : Invoke(i, name)
    \/ ProcessInternal
    \/ \E c \in live : Publish(c)
    \/ ProcessExternal
    \/ React

Spec == Init /\ [][Next]_vars

(***************************************************************************)
(* The driver as a script: a function run() that constructs instances,     *)
(* wires them and calls actions, one statement after the other.  An        *)
(* exception that leaves an action call leaves run() as well.              *)
(***************************************************************************)
Op(op, i, name, args) == [op |-> op, self |-> i, name |-> name, args |-> args]

Scenarios ==
    [A |->
        [live |-> {"trafficlight", "policecar"},
         initial |-> [trafficlight |-> "YELLOW", policecar |-> "ROLLING"],
         script |-> << Op("subscribe", "policecar", None, << "trafficlight" >>),
                       Op("action", "policecar", "chase", << >>),
                       Op("action", "trafficlight", "red", << >>) >>],
     B |->
        [live |-> {"trafficlight", "cyclist", "policecar"},
         initial |-> [trafficlight |-> "YELLOW", cyclist |-> "CYCLING", policecar |-> "ROLLING"],
         script |-> << Op("subscribe", "cyclist", None, << "trafficlight" >>),
                       Op("subscribe", "policecar", None, << "trafficlight" >>),
                       Op("register", "policecar", None, << "cyclist" >>),
                       Op("action", "trafficlight", "red", << >>),
                       Op("action", "trafficlight", "green", << >>),
                       Op("action", "trafficlight", "yellow", << >>) >>],
     LightRider |->
        [live |-> {"trafficlight", "rider"},
         initial |-> [trafficlight |-> "GREEN", rider |-> "Rider.CYCLING"],
         script |-> << Op("subscribe", "rider", None, << "trafficlight" >>),
                       Op("action", "trafficlight", "red", << >>),
                       Op("action", "trafficlight", "green", << >>),
                       Op("action", "trafficlight", "yellow", << >>) >>],
     LightRiderFromYellow |->
        [live |-> {"trafficlight", "rider"},
         initial |-> [trafficlight |-> "YELLOW", rider |-> "Rider.CYCLING"],
         script |-> << Op("subscribe", "rider", None, << "trafficlight" >>),
                       Op("action", "trafficlight", "red", << >>),
                       Op("action", "trafficlight", "green", << >>),
                       Op("action", "trafficlight", "yellow", << >>) >>],
     Twice |->
        [live |-> {"trafficlight", "cyclist", "policecar"},
         initial |-> [trafficlight |-> "YELLOW", cyclist |-> "CYCLING", policecar |-> "CHASING"],
         script |-> << Op("subscribe", "cyclist", None, << "trafficlight" >>),
                       Op("subscribe", "policecar", None, << "trafficlight" >>),
                       Op("subscribe", "cyclist", None, << "trafficlight" >>),
                       Op("register", "trafficlight", None, << "cyclist", "cyclist" >>),
                       Op("action", "trafficlight", "red", << >>),
                       Op("register", "trafficlight", None, << "policecar" >>),
                       Op("action", "trafficlight", "green", << >>) >>],
     Cycle |->
        [live |-> {"a", "b"},
         initial |-> [a |-> "X", b |-> "P"],
         script |-> << Op("subscribe", "a", None, << "b" >>),
                       Op("subscribe", "b", None, << "a" >>),
                       Op("action", "a", "to_y", << >>) >>],
     Barrier |->
        [live |-> {"trafficlight", "barrier"},
         initial |-> [trafficlight |-> "YELLOW", barrier |-> "OPEN"],
         script |-> << Op("subscribe", "barrier", None, << "trafficlight" >>),
                       Op("action", "trafficlight", "red", << >>),
                       Op("action", "trafficlight", "green", << >>),
                       Op("action", "trafficlight", "yellow", << >>) >>],
     Reentry |->
        [live |-> {"leader", "follower1", "follower2"},
         initial |-> [leader |-> "L0", follower1 |-> "F0", follower2 |-> "F0"],
         script |-> << Op("subscribe", "follower1", None, << "leader" >>),
                       Op("subscribe", "follower2", None, << "leader" >>),
                       Op("subscribe", "leader", None, << "follower1" >>),
                       Op("action", "leader", "step1", << >>) >>]]

Script == Scenarios[run.scenario].script

\* run() has executed its last statement.
RunEnded == stack = << >> /\ run.pc = Len(Script) + 1

ScenarioInit ==
    /\ \E sc \in DOMAIN Scenarios :
          /\ Construct(Scenarios[sc].live)
          /\ state = Scenarios[sc].initial
          /\ run = [scenario |-> sc, pc |-> 1]
    /\ namespace = << >>
    /\ cls = NoClass

\* run() executes its next statement.
RunStep ==
    /\ stack = << >>
    /\ call.status # "raised"
    /\ run.pc <= Len(Script)
    /\ run' = [run EXCEPT !.pc = @ + 1]
    /\ LET o == Script[run.pc]
       IN  CASE o.op = "register" -> RegisterCall(o.self, o.args)
             [] o.op = "subscribe" -> SubscribeCall(o.self, o.args)
             [] o.op = "action" -> ActionCall(o.self, o.name)

\* The engine runs while the stack is below MaxDepth frames.
ScenarioNext ==
    \/ RunStep
    \/ Len(stack) < MaxDepth /\ ProcessInternal
    \/ Len(stack) < MaxDepth /\ \E c \in live : Publish(c)
    \/ Len(stack) < MaxDepth /\ ProcessExternal
    \/ Len(stack) < MaxDepth /\ React

ScenarioSpec == ScenarioInit /\ [][ScenarioNext]_vars

\* One step of the call in progress.  Python runs the call without
\* suspension points, so a step that can be taken is taken.
Dispatch ==
    /\ Len(stack) < MaxDepth
    /\ ProcessInternal \/ (\E c \in live : Publish(c)) \/ ProcessExternal \/ React

FairScenarioSpec == ScenarioInit /\ [][ScenarioNext]_vars /\ WF_vars(Dispatch)

(***************************************************************************)
(* A class statement with metaclass StateMachineMeta: the attributes of    *)
(* its body, in the order of their definition, and the class               *)
(* StateMachineMeta.__new__ makes of them.  The name of an attribute is    *)
(* its position in the namespace.                                          *)
(***************************************************************************)
\* What the metaclass reads of an attribute: the dunder attributes the
\* decorators set on their wrapper (functools.wraps copies those of the
\* function that is wrapped, so a function decorated twice carries both sets).
Attribute(is_action, broadcast, transitions_to, is_reaction, reacts_to) ==
    [is_action_function |-> is_action, broadcast |-> broadcast,
     transitions_to |-> transitions_to,
     is_reaction_function |-> is_reaction, reacts_to |-> reacts_to]

Attributes ==
    { Attribute(FALSE, FALSE, None, FALSE, None),
      Attribute(TRUE, TRUE, "GREEN", FALSE, None),
      Attribute(TRUE, FALSE, "GREEN", FALSE, None),
      Attribute(FALSE, FALSE, None, TRUE, "GREEN"),
      Attribute(FALSE, FALSE, None, TRUE, "RED"),
      Attribute(TRUE, TRUE, "GREEN", TRUE, "RED") }

Namespaces == UNION {[1..n -> Attributes] : n \in 0..MaxAttrs}

\* `raise Exception(...)` in __new__: the class statement fails and binds no class
Raised == [status |-> "Exception", broadcast_events |-> << >>, reactions_to_state |-> << >>,
           instances |-> 0]

RECURSIVE LastWinsFrom(_, _, _)
LastWinsFrom(ns, k, c) ==
    IF k > Len(ns) THEN c
    ELSE LET b == IF ns[k].is_action_function /\ ns[k].broadcast
                  THEN [c EXCEPT !.broadcast_events = Append(@, k)] ELSE c
         IN  IF ns[k].is_reaction_function
             THEN LastWinsFrom(ns, k + 1,
                               [b EXCEPT !.reactions_to_state = Put(@, ns[k].reacts_to, k)])
             ELSE LastWinsFrom(ns, k + 1, b)

\* __new__ without the check `if state in cls.reactions_to_state`: a later
\* reaction to the same state replaces the earlier one
StateMachineMetaNewLastWins(ns) ==
    LastWinsFrom(ns, 1, [status |-> "constructed", broadcast_events |-> << >>,
                         reactions_to_state |-> << >>, instances |-> 0])

RECURSIVE NewFrom(_, _, _)
\* `for name, value in namespace.items()` from attribute k on, with the class c so far
NewFrom(ns, k, c) ==
    IF k > Len(ns) THEN c
    ELSE LET b == IF ns[k].is_action_function /\ ns[k].broadcast
                  THEN [c EXCEPT !.broadcast_events = Append(@, k)] ELSE c
         IN  IF ns[k].is_reaction_function
             THEN IF ns[k].reacts_to \in DOMAIN b.reactions_to_state
                  THEN Raised
                  ELSE NewFrom(ns, k + 1,
                               [b EXCEPT !.reactions_to_state = Put(@, ns[k].reacts_to, k)])
             ELSE NewFrom(ns, k + 1, b)

\* StateMachineMeta.__new__
StateMachineMetaNew(ns) ==
    NewFrom(ns, 1, [status |-> "constructed", broadcast_events |-> << >>,
                    reactions_to_state |-> << >>, instances |-> 0])

ClassInit ==
    /\ namespace \in Namespaces
    /\ cls = NoClass
    /\ Construct({})
    /\ run = NoRun

\* the class statement is executed
ClassStatement ==
    /\ cls.status = None
    /\ cls' = StateMachineMetaNew(namespace)
    /\ UNCHANGED << namespace, machines, run >>

\* the constructor of the class is called; a class statement that failed has
\* bound no name to call
Instantiate ==
    /\ cls.status = "constructed"
    /\ cls.instances < MaxInstances
    /\ cls' = [cls EXCEPT !.instances = @ + 1]
    /\ UNCHANGED << namespace, machines, run >>

ClassNext ==
    \/ ClassStatement
    \/ Instantiate

ClassSpec == ClassInit /\ [][ClassNext]_vars

(***************************************************************************)
(* Vocabulary of the properties, written from the declarations and not     *)
(* from the engine's derived tables.                                       *)
(***************************************************************************)
\* A -> B is an edge of the adjacency map of the type: declared, or the
\* reverse of a declared bidirectional transition.
Edge(type, a, b) ==
    \E t \in Range(MachineTypes[type].transitions) :
        \/ t.source = a /\ t.destination = b
        \/ t.bidirectional /\ t.source = b /\ t.destination = a

\* What the step being taken appended to trace.
NewSteps ==
    IF stack = << >> THEN trace' ELSE SubSeq(trace', Len(trace) + 1, Len(trace'))

\* The declaration a guard entry of trace belongs to: an action's when the
\* entry has no source event, else a reaction's.
GuardDecl(e) ==
    IF e.source = None
    THEN CHOOSE a \in Range(MachineTypes[TypeOf[e.self]].actions) : a.name = e.name
    ELSE CHOOSE r \in Range(MachineTypes[TypeOf[e.self]].reactions) : r.name = e.name

\* The body guarded by entry k of steps ran: it is the next thing that happened.
BodyRan(steps, k) ==
    /\ k < Len(steps)
    /\ steps[k + 1].op \in {"body", "react"}
    /\ steps[k + 1].self = steps[k].self
    /\ steps[k + 1].name = steps[k].name

\* The observed-state-set of instance i after the step.
ObservedAfter(i) == {state'[i]} \cup {publishers'[i][p] : p \in DOMAIN publishers'[i]}

\* An internal event is about to be processed by the frame on top.
AtInternal ==
    /\ stack # << >>
    /\ Top.k = "process" /\ Top.pc = "start" /\ Top.event.source = Top.self

\* The driver's action call in `call` has ended and its guard had passed / had not.
TopLevelEnded == call.op = "action" /\ call.status \in {"returned", "raised"}
TopLevelDecl == CHOOSE a \in Range(MachineTypes[TypeOf[call.self]].actions) : a.name = call.name

\* Everything of instance j is as it was when the driver's call began.
Untouched(j) ==
    /\ state[j] = call.snap.state[j]
    /\ publishers[j] = call.snap.publishers[j]
    /\ consumers[j] = call.snap.consumers[j]
    /\ events[j] = call.snap.events[j]
    /\ effects[j] = call.snap.effects[j]

(***************************************************************************)
(* C1: for every edge A -> B of a type's adjacency map (a reverse edge of  *)
(* a bidirectional transition included), when an instance at A processes   *)
(* the internal event of an action targeting B (its guard has passed), its *)
(* current state is B once the event has been processed.                   *)
(***************************************************************************)
C1_DeclaredTransitionApplies ==
    [][ (AtInternal /\ Edge(TypeOf[Top.self], state[Top.self], Top.event.state))
            => state'[Top.self] = Top.event.state ]_vars

\* a police car that went back along the reverse edge of a bidirectional
\* transition, STOPPED -> ROLLING
C1_Witness ==
    \E k \in DOMAIN trace :
        /\ trace[k].op = "transition"
        /\ trace[k].from = "PoliceCar.STOPPED" /\ trace[k].state = "ROLLING"
        /\ state[trace[k].self] = "ROLLING"

(***************************************************************************)
(* C2: when an instance at A invokes an action (guard passing) whose       *)
(* target C differs from A and is not in adjacency[A], the call ends with  *)
(* TransitionError, the instance is still at A, and nothing is delivered   *)
(* to any consumer: the raise is the last thing the call did, and after a  *)
(* call of the driver that failed this way every other instance is as it   *)
(* was before the call.                                                    *)
(***************************************************************************)
C2_IllegalTargetRaises ==
    \A k \in DOMAIN trace :
        LET e == trace[k]
        IN  (/\ e.op \in {"noop", "transition", "raise"}
             /\ e.state # e.from
             /\ ~Edge(TypeOf[e.self], e.from, e.state))
            => /\ e.op = "raise"
               /\ k = Len(trace)
               /\ call.status = "raised"
               /\ stack = << >>
               /\ state[e.self] = e.from
               /\ e.depth = 2 => \A j \in live \ {e.self} : Untouched(j)

\* a traffic light with a consumer, asked to go from GREEN to RED
C2_Witness ==
    /\ call.status = "raised"
    /\ call.self = "trafficlight" /\ call.name = "red"
    /\ state["trafficlight"] = "GREEN"
    /\ consumers["trafficlight"] # {}
    /\ trace[Len(trace)].op = "raise"

(***************************************************************************)
(* C3: every change of an instance's current state from s to t has t in    *)
(* adjacency[s] of its type, and is made by that instance processing an    *)
(* internal event with target t; processing an external event, subscribe   *)
(* and register change no current state.                                   *)
(***************************************************************************)
C3_StateChangesAreValidated ==
    [][ \A i \in live :
            state'[i] # state[i]
            => /\ Edge(TypeOf[i], state[i], state'[i])
               /\ AtInternal
               /\ Top.self = i
               /\ Top.event.state = state'[i] ]_vars

\* a cyclist stopped by its reaction to the traffic light's RED
C3_Witness ==
    /\ "cyclist" \in live
    /\ call.op = "action" /\ call.self = "trafficlight"
    /\ call.snap.state["cyclist"] = "CYCLING"
    /\ state["cyclist"] = "Cyclist.STOPPED"
    /\ \E k \in DOMAIN trace : trace[k].op = "external" /\ trace[k].self = "cyclist"

\* The entry of trace at which the frame number n that is on the stack at
\* entry k returns; 0 when it has not returned.
ReturnOf(k, n) ==
    LET S == {m \in (k + 1)..Len(trace) : trace[m].op = "return" /\ trace[m].depth = n}
    IN  IF S = {} THEN 0 ELSE CHOOSE m \in S : \A x \in S : m <= x

\* The calls of consumer.process_event made by the publish_event that
\* entry k of trace started.
DeliveriesOf(k) ==
    LET r == ReturnOf(k, trace[k].depth)
    IN  {j \in (k + 1)..(IF r = 0 THEN Len(trace) ELSE r) :
            trace[j].op = "deliver" /\ trace[j].depth = trace[k].depth}

C5_NonBroadcastStaysLocal ==
    /\ \A k \in DOMAIN trace :
          trace[k].op \in {"publish", "deliver"}
          => \E a \in Range(MachineTypes[TypeOf[trace[k].source]].actions) :
                 a.name = trace[k].name /\ a.broadcast
    /\ (TopLevelEnded /\ ~TopLevelDecl.broadcast)
          => \A j \in live \ {call.self} : Untouched(j)

\* the police car, with the cyclist as its consumer, stopped by its
\* non-broadcast action stop
C5_Witness ==
    /\ "policecar" \in live
    /\ call.status = "returned" /\ call.self = "policecar" /\ call.name = "stop"
    /\ consumers["policecar"] = {"cyclist"}
    /\ call.snap.state["policecar"] = "ROLLING"
    /\ state["policecar"] = "PoliceCar.STOPPED"
    /\ events["cyclist"] = call.snap.events["cyclist"]

(***************************************************************************)
(* C6: for an action or reaction declared with a non-empty `when` set W    *)
(* and no `unless`, the body runs if and only if W shares a state with     *)
(* {current state} united with the recorded states of the instance's       *)
(* publishers at the moment of the call.                                   *)
(***************************************************************************)
C6_WhenAloneDecides ==
    [][ \A k \in DOMAIN NewSteps :
            LET e == NewSteps[k]
                d == GuardDecl(e)
            IN  (e.op = "guard" /\ d.when.present /\ d.when.set # {} /\ ~d.unless.present)
                => (BodyRan(NewSteps, k) <=> d.when.set \cap ObservedAfter(e.self) # {}) ]_vars

\* a gate that is UP lifts, because the traffic light it subscribed to is GREEN
C6_Witness ==
    /\ "gate1" \in live
    /\ call.op = "action" /\ call.self = "gate1" /\ call.name = "lift"
    /\ call.snap.state["gate1"] = "UP"
    /\ "trafficlight" \in DOMAIN publishers["gate1"]
    /\ publishers["gate1"]["trafficlight"] = "GREEN"
    /\ Len(trace) >= 2 /\ trace[2].op = "body"

(***************************************************************************)
(* C7: for an action or reaction declared with a non-empty `unless` set U  *)
(* and no `when`, the body is blocked if and only if U shares a state with *)
(* {current state} united with the recorded states of all publishers;      *)
(* otherwise it runs.                                                      *)
(***************************************************************************)
C7_UnlessAloneDecides ==
    [][ \A k \in DOMAIN NewSteps :
            LET e == NewSteps[k]
                d == GuardDecl(e)
            IN  (e.op = "guard" /\ d.unless.present /\ d.unless.set # {} /\ ~d.when.present)
                => (~BodyRan(NewSteps, k) <=> d.unless.set \cap ObservedAfter(e.self) # {}) ]_vars

\* a gate that is DOWN does not lock, because the traffic light it
\* subscribed to is RED
C7_Witness ==
    /\ "gate1" \in live
    /\ call.op = "action" /\ call.self = "gate1" /\ call.name = "lock"
    /\ call.status = "returned"
    /\ state["gate1"] = "DOWN"
    /\ "trafficlight" \in DOMAIN publishers["gate1"]
    /\ publishers["gate1"]["trafficlight"] = "RED"
    /\ Len(trace) = 2 /\ trace[2].op = "return"

(***************************************************************************)
(* C8: an action declared with when={A} and unless={A} never fires while A *)
(* is in the observed-state-set: the body does not run and no event is     *)
(* dispatched, the call just returns.                                      *)
(***************************************************************************)
C8_UnlessBeatsWhen ==
    [][ \A k \in DOMAIN NewSteps :
            LET e == NewSteps[k]
                d == GuardDecl(e)
            IN  (/\ e.op = "guard" /\ e.source = None
                 /\ d.when.present /\ d.unless.present
                 /\ d.when.set = d.unless.set
                 /\ d.when.set \cap ObservedAfter(e.self) # {})
                => /\ ~BodyRan(NewSteps, k)
                   /\ k < Len(NewSteps) /\ NewSteps[k + 1].op = "return"
                   /\ events' = events
                   /\ effects' = effects
                   /\ state' = state ]_vars

\* a gate that is DOWN is asked to reset (when={DOWN}, unless={DOWN})
C8_Witness ==
    /\ "gate1" \in live
    /\ call.op = "action" /\ call.self = "gate1" /\ call.name = "reset"
    /\ call.status = "returned"
    /\ state["gate1"] = "DOWN"
    /\ events["gate1"] = call.snap.events["gate1"]

(***************************************************************************)
(* C9: invoking an action whose target equals the current state (guard     *)
(* passing) leaves the current state unchanged, appends exactly one event  *)
(* to the instance's log, delivers nothing to any consumer even when the   *)
(* action is broadcast=true, and raises no TransitionError even when the   *)
(* state has no self-edge; this holds for every such call, repeated or not.*)
(***************************************************************************)
C9_TargetIsCurrentState ==
    /\ \A k \in DOMAIN trace :
          (trace[k].op \in {"noop", "transition", "raise"} /\ trace[k].from = trace[k].state)
          => /\ trace[k].op = "noop"
             /\ k < Len(trace) /\ trace[k + 1].op = "return"
    /\ (/\ TopLevelEnded
        /\ call.snap.state[call.self] = TopLevelDecl.state
        /\ Len(trace) >= 2 /\ trace[2].op = "body")
          => /\ call.status = "returned"
             /\ state = call.snap.state
             /\ events[call.self]
                  = Append(call.snap.events[call.self],
                           Event(call.name, call.self, TopLevelDecl.state))
             /\ publishers = call.snap.publishers
             /\ consumers = call.snap.consumers
             /\ \A j \in live \ {call.self} : Untouched(j)

\* a GREEN traffic light with a consumer, told green() twice
C9_Witness ==
    /\ call.status = "returned" /\ call.self = "trafficlight" /\ call.name = "green"
    /\ state["trafficlight"] = "GREEN"
    /\ ~Edge("TrafficLight", "GREEN", "GREEN")
    /\ consumers["trafficlight"] # {}
    /\ Len(events["trafficlight"]) = 2
    /\ events["trafficlight"][1] = events["trafficlight"][2]
    /\ \E k \in DOMAIN trace : trace[k].op = "noop"

(***************************************************************************)
(* C10: when an action's guard rejects the call, the call returns normally *)
(* with no effect: the body is not run, the current state, publishers,     *)
(* consumers and logs are unchanged, nothing is delivered and no error is  *)
(* raised; this holds for every rejected call, repeated or not.            *)
(***************************************************************************)
C10_RejectedCallHasNoEffect ==
    [][ \A k \in DOMAIN NewSteps :
            LET e == NewSteps[k]
                d == GuardDecl(e)
                obs == ObservedAfter(e.self)
            IN  (/\ e.op = "guard" /\ e.source = None
                 /\ \/ d.when.present /\ d.when.set # {} /\ d.when.set \cap obs = {}
                    \/ d.unless.present /\ d.unless.set \cap obs # {})
                => /\ ~BodyRan(NewSteps, k)
                   /\ k < Len(NewSteps) /\ NewSteps[k + 1].op = "return"
                   /\ \A m \in DOMAIN NewSteps : m > k => NewSteps[m].op = "return"
                   /\ state' = state
                   /\ publishers' = publishers
                   /\ consumers' = consumers
                   /\ events' = events
                   /\ effects' = effects
                   /\ call'.status # "raised" ]_vars

\* a cyclist that has seen no GREEN light is told cycle_slow() twice and
\* nothing at all has happened
C10_Witness ==
    /\ "cyclist" \in live
    /\ ncalls = 2
    /\ call.status = "returned" /\ call.self = "cyclist" /\ call.name = "cycle_slow"
    /\ trace = << Step("guard", 1, "cyclist", "cycle_slow", None, "CYCLING",
                       state["cyclist"], FALSE),
                  Step("return", 1, "cyclist", "cycle_slow", None, None, None, TRUE) >>
    /\ \A i \in live : events[i] = << >> /\ effects[i] = 0

\* An external event is about to be processed by the frame on top.
AtExternal ==
    /\ stack # << >>
    /\ Top.k = "process" /\ Top.pc = "start" /\ Top.event.source # Top.self

\* The type declares a reaction to state s.
HasReaction(type, s) == \E r \in Range(MachineTypes[type].reactions) : r.state = s

\* The entries of trace where instance i processed an external event of p.
ExternalsOf(i, p) ==
    {k \in DOMAIN trace : trace[k].op = "external" /\ trace[k].self = i /\ trace[k].source = p}

(***************************************************************************)
(* C11: whenever an instance processes an external event, it sets          *)
(* publishers[event.source] to event.state, also when no reaction is       *)
(* registered for that state and when the matched reaction's guard         *)
(* rejects: what an instance has recorded for a source is the state of the *)
(* last event of that source it processed during the call.                 *)
(***************************************************************************)
C11_SourceStateAlwaysRecorded ==
    \A i \in live : \A p \in live :
        ExternalsOf(i, p) # {}
        => LET k == CHOOSE x \in ExternalsOf(i, p) : \A y \in ExternalsOf(i, p) : y <= x
           IN  /\ p \in DOMAIN publishers[i]
               /\ publishers[i][p] = trace[k].state

\* a chasing police car records the traffic light's RED although the guard
\* of its reaction to RED rejects
C11_Witness ==
    /\ "policecar" \in live
    /\ call.status = "returned" /\ call.self = "trafficlight"
    /\ state["policecar"] = "CHASING"
    /\ \E k \in DOMAIN trace :
          /\ trace[k].op = "guard" /\ trace[k].self = "policecar" /\ ~trace[k].ok
          /\ trace[k].state = "RED"
    /\ call.snap.publishers["policecar"] = [p \in {"trafficlight"} |-> "YELLOW"]
    /\ publishers["policecar"] = [p \in {"trafficlight"} |-> "RED"]

(***************************************************************************)
(* C12: when an instance receives an external event whose state has no     *)
(* reaction registered in its machine type, the event is ignored without   *)
(* error: no current state and no consumers set changes, no action runs,   *)
(* and only the receiver's publishers entry for the source and its event   *)
(* log are updated.                                                        *)
(***************************************************************************)
C12_UnhandledEventIsIgnored ==
    [][ (AtExternal /\ ~HasReaction(TypeOf[Top.self], Top.event.state))
        => LET i == Top.self
               p == Top.event.source
           IN  /\ state' = state
               /\ consumers' = consumers
               /\ effects' = effects
               /\ call'.status # "raised"
               /\ \A k \in DOMAIN NewSteps : NewSteps[k].op \in {"external", "return"}
               /\ events' = [events EXCEPT ![i] = Append(@, Top.event)]
               /\ \A j \in live \ {i} : publishers'[j] = publishers[j]
               /\ DOMAIN publishers'[i] = DOMAIN publishers[i] \cup {p}
               /\ publishers'[i][p] = Top.event.state
               /\ \A q \in DOMAIN publishers[i] \ {p} : publishers'[i][q] = publishers[i][q]
      ]_vars

\* a cyclist is told of the traffic light's YELLOW and cycles on
C12_Witness ==
    /\ "cyclist" \in live
    /\ call.status = "returned" /\ call.self = "trafficlight" /\ call.name = "yellow"
    /\ \E k \in DOMAIN trace :
          /\ trace[k].op = "external" /\ trace[k].self = "cyclist" /\ trace[k].state = "YELLOW"
          /\ trace[k + 1].op = "return"
    /\ state["cyclist"] = "CYCLING" /\ call.snap.state["cyclist"] = "CYCLING"
    /\ Len(events["cyclist"]) = Len(call.snap.events["cyclist"]) + 1
    /\ publishers["cyclist"] = [p \in {"trafficlight"} |-> "YELLOW"]

\* The entries of trace where a body of an action of instance j ran.
BodiesOf(j) == {k \in DOMAIN trace : trace[k].op = "body" /\ trace[k].self = j}

\* The entries of trace where the guard of an action of instance j passed.
PassedCallsOf(j) ==
    {k \in DOMAIN trace :
        trace[k].op = "guard" /\ trace[k].source = None /\ trace[k].self = j /\ trace[k].ok}

(***************************************************************************)
(* C13: for every single invocation of an action, the body runs at most    *)
(* once, and it runs only if the guard passed for that invocation: a body  *)
(* runs right after the guard check of its own invocation, which passed,   *)
(* and during a call of the driver the bodies of an instance have run as   *)
(* many times as guard checks of its actions have passed.                  *)
(***************************************************************************)
C13_BodyRunsOnceIfGuardPassed ==
    /\ \A k \in DOMAIN trace :
          trace[k].op = "body"
          => /\ k > 1
             /\ trace[k - 1].op = "guard" /\ trace[k - 1].ok
             /\ trace[k - 1].self = trace[k].self
             /\ trace[k - 1].name = trace[k].name
             /\ trace[k - 1].depth = trace[k].depth
    /\ call.op = "action"
          => \A j \in live :
                effects[j] = call.snap.effects[j] + Cardinality(PassedCallsOf(j))

\* a gate that is UP reacts to YELLOW by lift(), which its guard rejects, and
\* then by lower(), which runs: one body has run
C13_Witness ==
    /\ "gate1" \in live
    /\ call.status = "returned" /\ call.self = "trafficlight" /\ call.name = "yellow"
    /\ call.snap.state["gate1"] = "UP" /\ state["gate1"] = "DOWN"
    /\ \E k \in DOMAIN trace :
          /\ trace[k].op = "guard" /\ trace[k].self = "gate1" /\ trace[k].name = "lift"
          /\ ~trace[k].ok
    /\ Cardinality(BodiesOf("gate1")) = 1
    /\ effects["gate1"] = call.snap.effects["gate1"] + 1

(***************************************************************************)
(* C14: the action body executes before transition legality is checked:    *)
(* when the guard passes and the target is unreachable from the current    *)
(* state, the body has already run (its effects stay) at the moment the    *)
(* TransitionError is raised, while the current state stays unchanged.     *)
(***************************************************************************)
C14_BodyRunsBeforeLegalityCheck ==
    \A k \in DOMAIN trace :
        trace[k].op = "raise"
        => LET j == trace[k].self
           IN  /\ k > 1
               /\ trace[k - 1].op = "body"
               /\ trace[k - 1].self = j /\ trace[k - 1].name = trace[k].name
               /\ call.status = "raised"
               /\ state[j] = trace[k].from
               /\ ~Edge(TypeOf[j], trace[k].from, trace[k].state)
               /\ effects[j] = call.snap.effects[j] + Cardinality(BodiesOf(j))
               /\ effects[j] > call.snap.effects[j]

\* a gate that is LOCKED is told lower(): the body has run, the gate is
\* still LOCKED and the call raised
C14_Witness ==
    /\ "gate1" \in live
    /\ call.status = "raised" /\ call.self = "gate1" /\ call.name = "lower"
    /\ call.snap.state["gate1"] = "LOCKED" /\ state["gate1"] = "LOCKED"
    /\ effects["gate1"] = call.snap.effects["gate1"] + 1
    /\ trace[Len(trace)].op = "raise"

\* The step being taken is a call of subscribe by the driver.
SubscribeStep == stack = << >> /\ call'.op = "subscribe"

(***************************************************************************)
(* C15: if instance A subscribes to instance B, then afterwards            *)
(* B.consumers contains A (and is otherwise as before), A.consumers is     *)
(* unchanged and B.publishers is unchanged: the subscription is            *)
(* one-directional.                                                        *)
(***************************************************************************)
C15_SubscriptionIsOneDirectional ==
    [][ SubscribeStep
        => LET A == call'.self
               Bs == Range(call'.args)
           IN  /\ \A B \in Bs :
                     /\ consumers'[B] = consumers[B] \cup {A}
                     /\ B # A => publishers'[B] = publishers[B]
               /\ A \notin Bs => consumers'[A] = consumers[A]
               /\ \A j \in live \ Bs : consumers'[j] = consumers[j]
               /\ \A j \in live \ {A} : publishers'[j] = publishers[j]
      ]_vars

\* the cyclist has subscribed to the traffic light: the light has the
\* cyclist as consumer, the cyclist has no consumer and the light no publisher
C15_Witness ==
    /\ "cyclist" \in live
    /\ call.op = "subscribe" /\ call.self = "cyclist" /\ call.args = << "trafficlight" >>
    /\ "cyclist" \in consumers["trafficlight"]
    /\ consumers["cyclist"] = {}
    /\ "trafficlight" \notin consumers["cyclist"]
    /\ DOMAIN publishers["trafficlight"] = {}
    /\ DOMAIN publishers["cyclist"] = {"trafficlight"}

(***************************************************************************)
(* C16: A.subscribe([B]) records B's current state at the time of the call *)
(* as A.publishers[B], overwriting any earlier recorded value, so that it  *)
(* is part of A's observed-state-set from then on: the recorded value      *)
(* stays until A subscribes to B again or processes an event that B has    *)
(* broadcast.                                                              *)
(***************************************************************************)
C16_SubscribeRecordsPublisherState ==
    [][ /\ SubscribeStep
           => LET A == call'.self
              IN  /\ \A B \in Range(call'.args) :
                        /\ B \in DOMAIN publishers'[A]
                        /\ publishers'[A][B] = state[B]
                        /\ state[B] \in ObservedAfter(A)
                  /\ \A q \in DOMAIN publishers[A] \ Range(call'.args) :
                        publishers'[A][q] = publishers[A][q]
        /\ \A A \in live : \A B \in DOMAIN publishers[A] :
              (/\ ~(SubscribeStep /\ call'.self = A /\ B \in Range(call'.args))
               /\ ~(AtExternal /\ Top.self = A /\ Top.event.source = B))
              => /\ B \in DOMAIN publishers'[A]
                 /\ publishers'[A][B] = publishers[A][B]
                 /\ publishers[A][B] \in ObservedAfter(A)
      ]_vars

\* a stopped cyclist subscribed to a GREEN traffic light that has never
\* broadcast anything, and its cycle_slow(), guarded by when={GREEN}, runs
C16_Witness ==
    /\ "cyclist" \in live
    /\ call.op = "action" /\ call.self = "cyclist" /\ call.name = "cycle_slow"
    /\ call.status = "returned"
    /\ events["trafficlight"] = << >>
    /\ state["trafficlight"] = "GREEN"
    /\ call.snap.publishers["cyclist"] = [p \in {"trafficlight"} |-> "GREEN"]
    /\ call.snap.state["cyclist"] = "Cyclist.STOPPED"
    /\ state["cyclist"] = "CYCLING"

\* The step being taken is a call of register by the driver.
RegisterStep == stack = << >> /\ call'.op = "register"

(***************************************************************************)
(* C17: register is idempotent: registering (or subscribing) a consumer    *)
(* with a publisher that has it as consumer already leaves the publisher's *)
(* consumers set as it was, and a broadcast transition delivers one relay  *)
(* event to that consumer, not one per registration: no fan-out serves a   *)
(* consumer twice.                                                         *)
(***************************************************************************)
C17_RegisterIsIdempotent ==
    /\ [][ /\ (RegisterStep /\ Range(call'.args) \subseteq consumers[call'.self])
              => consumers' = consumers
           /\ (SubscribeStep /\ \A B \in Range(call'.args) : call'.self \in consumers[B])
              => consumers' = consumers
           /\ RegisterStep
              => consumers' = [consumers EXCEPT ![call'.self] = @ \cup Range(call'.args)]
         ]_vars
    /\ [](\A k \in DOMAIN trace :
            trace[k].op = "publish"
            => \A c \in live : Cardinality({j \in DeliveriesOf(k) : trace[j].self = c}) <= 1)

\* the cyclist has subscribed to the traffic light twice and was registered
\* with it twice more, the police car has subscribed and was registered once
\* more: the light's green() is relayed to each of them once
C17_Witness ==
    /\ run.scenario = "Twice" /\ RunEnded
    /\ call.status = "returned" /\ call.name = "green"
    /\ consumers["trafficlight"] = {"cyclist", "policecar"}
    /\ \E k \in DOMAIN trace :
          /\ trace[k].op = "publish"
          /\ Cardinality(DeliveriesOf(k)) = 2
          /\ \A c \in {"cyclist", "policecar"} :
                Cardinality({j \in DeliveriesOf(k) : trace[j].self = c}) = 1
    /\ Len(SelectSeq(events["cyclist"], LAMBDA e : e.source = "trafficlight")) = 2

\* The attributes of the namespace that are reactions.
ReactionsIn(ns) == {k \in DOMAIN ns : ns[k].is_reaction_function}

\* Two distinct reactions of the namespace are bound to the same trigger state.
Clash(ns) ==
    \E j \in ReactionsIn(ns) : \E k \in ReactionsIn(ns) :
        j # k /\ ns[j].reacts_to = ns[k].reacts_to

(***************************************************************************)
(* C18: declaring a machine type in which two distinct reaction bodies are *)
(* bound to the same trigger state fails at machine-type construction,     *)
(* before any instance of that type can be created; a type with at most    *)
(* one reaction per trigger state is constructed and maps each trigger     *)
(* state to exactly that reaction.                                         *)
(***************************************************************************)
C18_DuplicateReactionFailsAtConstruction ==
    /\ cls.status = None => cls.instances = 0
    /\ cls.status # None =>
          /\ Clash(namespace) => cls.status = "Exception" /\ cls.instances = 0
          /\ ~Clash(namespace) =>
                /\ cls.status = "constructed"
                /\ DOMAIN cls.reactions_to_state
                     = {namespace[k].reacts_to : k \in ReactionsIn(namespace)}
                /\ \A k \in ReactionsIn(namespace) :
                      cls.reactions_to_state[namespace[k].reacts_to] = k

\* a class body with a reaction to RED, an action and a second reaction to
\* RED: the class statement has raised
C18_Witness ==
    /\ Len(namespace) = 3
    /\ namespace[1].is_reaction_function /\ namespace[1].reacts_to = "RED"
    /\ namespace[2].is_action_function /\ ~namespace[2].is_reaction_function
    /\ namespace[3].is_reaction_function /\ namespace[3].reacts_to = "RED"
    /\ cls.status = "Exception"
    /\ cls.instances = 0

(***************************************************************************)
(* C19, as amended: with Light (GREEN -> YELLOW -> RED -> GREEN, every     *)
(* action broadcast) constructed at YELLOW and Rider (STOPPED <-> CYCLING, *)
(* entering CYCLING on GREEN and STOPPED on RED, no reaction to YELLOW)    *)
(* constructed at CYCLING and subscribed to Light, Light.red(),            *)
(* Light.green(), Light.yellow() in that order leave Rider at STOPPED,     *)
(* CYCLING, CYCLING.  With Light constructed at GREEN the first call,      *)
(* Light.red(), raises TransitionError, the Rider stays at CYCLING and no  *)
(* further call is made.                                                   *)
(***************************************************************************)
C19_LightRiderScenario ==
    /\ (run.scenario = "LightRiderFromYellow" /\ stack = << >>)
       => /\ call.status # "raised"
          /\ ncalls = 0 => state["rider"] = "Rider.CYCLING"
          /\ ncalls = 1 => call.name = "red" /\ state["rider"] = "Rider.STOPPED"
          /\ ncalls = 2 => call.name = "green" /\ state["rider"] = "Rider.CYCLING"
          /\ ncalls = 3 => call.name = "yellow" /\ state["rider"] = "Rider.CYCLING"
    /\ (run.scenario = "LightRider" /\ stack = << >> /\ ncalls > 0)
       => /\ ncalls = 1 /\ call.name = "red"
          /\ call.status = "raised"
          /\ state["rider"] = "Rider.CYCLING"
          /\ state["trafficlight"] = "GREEN"

\* the three calls have been made on the Light constructed at YELLOW
C19_Witness ==
    /\ run.scenario = "LightRiderFromYellow" /\ RunEnded
    /\ ncalls = 3 /\ call.status = "returned" /\ call.name = "yellow"
    /\ state["rider"] = "Rider.CYCLING"
    /\ state["trafficlight"] = "YELLOW"
    /\ [k \in DOMAIN events["rider"] |-> events["rider"][k].state]
         = << "RED", "Rider.STOPPED", "GREEN", "Rider.CYCLING", "YELLOW" >>

\* C19 as stated: with Light constructed at GREEN, after Light.red() the
\* Rider is at STOPPED, after Light.green() at CYCLING and after
\* Light.yellow() at CYCLING.
C19_AsStated ==
    (run.scenario = "LightRider" /\ stack = << >>)
    => /\ ncalls = 1 => state["rider"] = "Rider.STOPPED"
       /\ ncalls = 2 => state["rider"] = "Rider.CYCLING"
       /\ ncalls = 3 => state["rider"] = "Rider.CYCLING"

C21_ScenarioA ==
    (run.scenario = "A" /\ stack = << >>)
    => /\ call.status # "raised"
       /\ ncalls = 1 => /\ call.self = "policecar" /\ call.name = "chase"
                        /\ state["policecar"] = "CHASING"
       /\ ncalls = 2 =>
             /\ call.self = "trafficlight" /\ call.name = "red"
             /\ state["trafficlight"] = "RED"
             /\ state["policecar"] = "CHASING"
             /\ publishers["policecar"] = [p \in {"trafficlight"} |-> "RED"]
             /\ \E k \in DOMAIN trace :
                   /\ trace[k].op = "guard" /\ trace[k].self = "policecar"
                   /\ trace[k].name = "on_red_light" /\ ~trace[k].ok
                   /\ trace[k + 1].op = "return"
             /\ \A k \in DOMAIN trace :
                   trace[k].self = "policecar" => trace[k].op \notin {"react", "body"}
             /\ effects["policecar"] = call.snap.effects["policecar"]
             /\ ~\E k \in DOMAIN events["policecar"] : events["policecar"][k].name = "stop"

\* run() of scenario A has made its two calls
C21_Witness ==
    /\ run.scenario = "A" /\ RunEnded
    /\ ncalls = 2 /\ call.status = "returned"
    /\ state["policecar"] = "CHASING" /\ state["trafficlight"] = "RED"
    /\ [k \in DOMAIN events["policecar"] |-> events["policecar"][k].name] = << "chase", "red" >>

\* The type declares a transition from a to b.
Declared(type, a, b) ==
    \E t \in Range(MachineTypes[type].transitions) : t.source = a /\ t.destination = b

\* The type declares a bidirectional transition from a to b.
DeclaredBidirectional(type, a, b) ==
    \E t \in Range(MachineTypes[type].transitions) :
        t.bidirectional /\ t.source = a /\ t.destination = b

(***************************************************************************)
(* C22: a declared Transition(A, B, bidirectional=True) permits both       *)
(* A -> B and B -> A, while a Transition(A, B) with bidirectional false    *)
(* permits only A -> B: an instance at B invoking an action targeting A    *)
(* raises TransitionError unless B -> A is declared by another entry.      *)
(***************************************************************************)
C22_BidirectionalAddsReverseEdge ==
    \A k \in DOMAIN trace :
        LET e == trace[k]
            type == TypeOf[e.self]
            permitted == Declared(type, e.from, e.state)
                         \/ DeclaredBidirectional(type, e.state, e.from)
        IN  (e.op \in {"transition", "raise"} /\ e.from # e.state)
            => /\ e.op = "transition" <=> permitted
               /\ e.op = "raise" <=> ~permitted
               /\ e.op = "raise" => state[e.self] = e.from /\ call.status = "raised"

\* a traffic light at YELLOW is told green(): GREEN -> YELLOW is declared one
\* way, and the call raises
C22_Witness ==
    /\ call.op = "action" /\ call.self = "trafficlight" /\ call.name = "green"
    /\ call.snap.state["trafficlight"] = "YELLOW"
    /\ Declared("TrafficLight", "GREEN", "YELLOW")
    /\ ~DeclaredBidirectional("TrafficLight", "GREEN", "YELLOW")
    /\ call.status = "raised"
    /\ state["trafficlight"] = "YELLOW"

(***************************************************************************)
(* C23: a TransitionError is never caught by the engine: when it is raised *)
(* by an action that a consumer's reaction body invoked during broadcast   *)
(* fan-out, it propagates through the consumer's process_event and the     *)
(* publisher's publish_event out of the publisher's action call to the     *)
(* original top-level caller: the raise is the last thing the engine does  *)
(* for the call, no frame goes on and the driver's call ends raised.       *)
(***************************************************************************)
C23_TransitionErrorIsNeverCaught ==
    /\ \A k \in DOMAIN trace :
          trace[k].op = "raise"
          => /\ k = Len(trace)
             /\ stack = << >>
             /\ call.status = "raised"
             /\ \A m \in DOMAIN trace : trace[m].op = "return" => trace[m].depth > 1
    /\ call.status = "raised" => trace # << >> /\ trace[Len(trace)].op = "raise"

\* the lock() of a gate is relayed to another gate, whose reaction calls an
\* action that raises: the error ends the first gate's call
C23_Witness ==
    /\ call.status = "raised"
    /\ trace[Len(trace)].op = "raise"
    /\ trace[Len(trace)].depth >= 6
    /\ trace[Len(trace)].self # call.self
    /\ \E k \in DOMAIN trace :
          /\ trace[k].op = "deliver" /\ trace[k].self = trace[Len(trace)].self
          /\ trace[k].source = call.self

\* The frame on top of the stack has a call to make or an event to process.
TopIsActive ==
    /\ stack # << >>
    /\ \/ Top.k = "process" /\ Top.pc = "start"
       \/ Top.k = "process" /\ Top.pc = "publish" /\ Top.pending # {}
       \/ Top.k = "reaction" /\ Top.pc = "body" /\ Top.calls # << >>

(***************************************************************************)
(* C24: the engine has no cycle detection or depth guard: with two         *)
(* instances subscribed to each other whose reactions each invoke a        *)
(* broadcast action that performs a real transition (A: X <-> Y reacting   *)
(* to Q by -> X and to P by -> Y; B: P <-> Q reacting to Y by -> Q and to  *)
(* X by -> P), a single top-level action invocation produces a chain of    *)
(* nested dispatches that goes on at every depth and never returns: no     *)
(* frame ever returns, nothing is raised, every dispatch is a real         *)
(* transition and the frame on top always has a further call to make.      *)
(***************************************************************************)
C24_MutualSubscriptionNeverReturns ==
    (run.scenario = "Cycle" /\ ncalls = 1)
    => /\ call.status = "running"
       /\ TopIsActive
       /\ \A m \in DOMAIN stack : stack[m].self \in {"a", "b"}
       /\ \A k \in DOMAIN trace : trace[k].op \notin {"return", "raise", "noop"}
       /\ \A k \in DOMAIN trace : trace[k].op = "guard" => trace[k].ok
       /\ Len(stack) >= Cardinality({k \in DOMAIN trace : trace[k].op = "transition"})

\* the chain has gone once round, a is on its way to Y a second time, and
\* the stack has reached the depth explored
C24_Witness ==
    /\ run.scenario = "Cycle"
    /\ Len(stack) >= MaxDepth
    /\ Cardinality({k \in DOMAIN trace :
                       trace[k].op = "transition" /\ trace[k].self = "a"
                       /\ trace[k].state = "Y"}) >= 2
    /\ Cardinality({m \in DOMAIN stack : stack[m].k = "action" /\ stack[m].self = "a"}) >= 3

RECURSIVE ReachableFrom(_, _)
\* The instances a broadcast started by one of S can reach: S closed under
\* the consumers sets cons.
ReachableFrom(S, cons) ==
    LET n == S \cup UNION {cons[i] : i \in S}
    IN  IF n = S THEN S ELSE ReachableFrom(n, cons)

(***************************************************************************)
(* C25: instances share no mutable state.  A register or subscribe call    *)
(* leaves the current state, publishers map, consumers set, event log and  *)
(* body count of every instance that is neither the caller nor one of its  *)
(* arguments unchanged; from the start of an action call to its end, every *)
(* instance that the caller cannot reach through consumers edges keeps all *)
(* five as they were when the call was made, other instances of the        *)
(* caller's or of a consumer's machine type included.                      *)
(***************************************************************************)
C25_InstancesShareNoMutableState ==
    /\ [][(stack = << >> /\ stack' = << >> /\ call'.op \in {"register", "subscribe"})
          => \A j \in live \ ({call'.self} \cup Range(call'.args)) :
                /\ state'[j] = state[j]
                /\ publishers'[j] = publishers[j]
                /\ consumers'[j] = consumers[j]
                /\ events'[j] = events[j]
                /\ effects'[j] = effects[j]]_vars
    /\ [](call.op = "action"
          => \A j \in live \ ReachableFrom({call.self}, call.snap.consumers) : Untouched(j))

\* the light's call has returned; gate1, subscribed to it, has reacted and
\* moved, while gate2, of the same class and not subscribed, is as it was,
\* with a log and a consumers set of its own that differ from gate1's
C25_Witness ==
    /\ "gate2" \in live
    /\ call.op = "action" /\ call.self = "trafficlight" /\ call.status = "returned"
    /\ ReachableFrom({"trafficlight"}, call.snap.consumers) = {"trafficlight", "gate1"}
    /\ state["gate1"] # call.snap.state["gate1"]
    /\ events["gate1"] # call.snap.events["gate1"]
    /\ events["gate2"] = call.snap.events["gate2"]
    /\ state["gate2"] = call.snap.state["gate2"]

(***************************************************************************)
(* C26: a reaction's guard is evaluated after the source's recorded state  *)
(* has been updated: when an instance is about to process an external      *)
(* event with state T, the observed states its reaction's guard will see   *)
(* contain T; so a reaction whose `unless` contains its own trigger state  *)
(* is always rejected and never runs its body, and a reaction whose `when` *)
(* contains its own trigger state (and that has no `unless`) always passes.*)
(***************************************************************************)
C26_ReactionGuardSeesTrigger ==
    /\ (stack # << >> /\ Top.k = "process" /\ Top.pc = "start" /\ Top.event.source # Top.self)
       => Top.event.state \in ReactionStates(Top.self, Top.event)
    /\ \A k \in DOMAIN trace :
          LET e == trace[k]
              r == GuardDecl(e)
          IN  (e.op = "guard" /\ e.source # None)
              => /\ (r.unless.present /\ e.state \in r.unless.set)
                    => ~e.ok /\ ~BodyRan(trace, k)
                 /\ (r.when.present /\ e.state \in r.when.set /\ ~r.unless.present)
                    => e.ok /\ BodyRan(trace, k)

\* the barrier has seen RED and then GREEN: on GREEN its reaction with
\* when = {GREEN} passed and closed it, and that is the only body of the
\* barrier that ran: on RED the reaction with unless = {RED} was rejected
C26_Witness ==
    /\ run.scenario = "Barrier"
    /\ call.name = "green" /\ call.status = "returned"
    /\ \E k \in DOMAIN trace :
          /\ trace[k].op = "guard" /\ trace[k].name = "on_green_light" /\ trace[k].ok
          /\ BodyRan(trace, k)
    /\ Len(events["barrier"]) = 3
    /\ events["barrier"][1].state = "RED"
    /\ effects["barrier"] = 1
    /\ state["barrier"] = "CLOSED"

(***************************************************************************)
(* C27: for every action or reaction on which a `when` set is present, the *)
(* empty set included, a call is rejected whenever `when` has no element   *)
(* among the observed states.  (The wrappers test `if when and ...`, which *)
(* an empty set fails like None: the call passes the `when` check.)        *)
(***************************************************************************)
C27_AsStated ==
    [][\A k \in DOMAIN NewSteps :
          LET e == NewSteps[k]
              d == GuardDecl(e)
              observed == IF e.source = None THEN ObservedStates(e.self)
                          ELSE ReactionStates(e.self, Top.event)
          IN  (e.op = "guard" /\ d.when.present /\ d.when.set \cap observed = {})
              => ~e.ok]_vars

\* the light turns YELLOW: the barrier's reaction on_yellow_light, declared
\* with when = set(), runs, and its action open, declared with when = set(),
\* opens the barrier
C27_EmptyWhenPasses ==
    /\ run.scenario = "Barrier"
    /\ call.name = "yellow" /\ call.status = "returned"
    /\ \E k \in DOMAIN trace :
          /\ trace[k].op = "guard" /\ trace[k].name = "on_yellow_light" /\ trace[k].ok
    /\ \E k \in DOMAIN trace :
          /\ trace[k].op = "guard" /\ trace[k].name = "open" /\ trace[k].ok
    /\ call.snap.state["barrier"] = "CLOSED"
    /\ state["barrier"] = "OPEN"

(***************************************************************************)
(* C28: broadcast fan-out is depth-first.  When a publish_event delivers   *)
(* its event to a consumer c1 and later to a consumer c2, c1's             *)
(* process_event has returned before c2's is called, everything from its   *)
(* call to its return happened in it or in frames called from it (c1's     *)
(* reaction, the action it calls, that action's broadcast to c1's          *)
(* consumers and their reactions), each of these frames has returned       *)
(* before it did, and the publisher is still in the same publish_event     *)
(* when it calls c2's process_event.                                       *)
(***************************************************************************)
C28_FanOutIsDepthFirst ==
    \A k \in DOMAIN trace :
        trace[k].op = "publish"
        => \A j1 \in DeliveriesOf(k) : \A j2 \in DeliveriesOf(k) :
              j1 < j2
              => LET n == trace[k].depth
                     r == ReturnOf(j1, n + 1)
                 IN  /\ r # 0 /\ r < j2
                     /\ \A m \in (j1 + 1)..r : trace[m].depth >= n + 1
                     /\ \A m \in (j1 + 1)..r :
                           (trace[m].op \in {"external", "guard"} /\ trace[m].depth > n + 1)
                           => LET x == ReturnOf(m, trace[m].depth) IN x # 0 /\ x < r
                     /\ \A m \in (r + 1)..j2 : trace[m].depth >= n /\ trace[m].op # "publish"

\* the light's green is delivered to the police car first: the police car
\* reacts, rolls, publishes roll to the cyclist, whose handling returns, and
\* only then is green delivered to the cyclist
C28_Witness ==
    /\ "policecar" \in live
    /\ call.self = "trafficlight" /\ call.status = "returned"
    /\ \E k \in DOMAIN trace :
          /\ trace[k].op = "publish" /\ trace[k].self = "trafficlight"
          /\ \E j1 \in DeliveriesOf(k) : \E j2 \in DeliveriesOf(k) :
                /\ j1 < j2
                /\ trace[j1].self = "policecar" /\ trace[j2].self = "cyclist"
                /\ \E m \in (j1 + 1)..(j2 - 1) :
                      /\ trace[m].op = "external" /\ trace[m].self = "cyclist"
                      /\ trace[m].source = "policecar"
                      /\ trace[m].depth > trace[k].depth + 1

\* What instance i has recorded as the state of p; None when nothing.
RecordedState(pubs, i, p) == IF p \in DOMAIN pubs[i] THEN pubs[i][p] ELSE None

(***************************************************************************)
(* C29: what a consumer has recorded as the state of publisher P changes   *)
(* only in a step in which the consumer calls subscribe with P among the   *)
(* arguments (it becomes P's current state) or processes an external event *)
(* whose source is P (it becomes the event's state).  No other step        *)
(* changes it: not a transition of P by an action that is not broadcast,   *)
(* not a call that finds P at its target already, not a call rejected by   *)
(* its guard, not a failed transition.                                     *)
(***************************************************************************)
C29_RecordedStateChangesOnlyByPush ==
    [][\A i \in live : \A p \in live :
          RecordedState(publishers', i, p) # RecordedState(publishers, i, p)
          => \/ /\ stack = << >> /\ stack' = << >>
                /\ call'.op = "subscribe" /\ call'.self = i /\ p \in Range(call'.args)
                /\ RecordedState(publishers', i, p) = state[p]
             \/ /\ AtExternal /\ Top.self = i /\ Top.event.source = p
                /\ \E k \in DOMAIN NewSteps :
                      /\ NewSteps[k].op = "external" /\ NewSteps[k].self = i
                      /\ NewSteps[k].source = p
                      /\ RecordedState(publishers', i, p) = NewSteps[k].state]_vars

\* the police car, whose chase the cyclist has seen, has stopped by an
\* action that is not broadcast: the cyclist still has it as CHASING
C29_Witness ==
    /\ "policecar" \in live
    /\ call.op = "action" /\ call.self = "policecar" /\ call.name = "stop"
    /\ call.status = "returned"
    /\ \E k \in DOMAIN trace : trace[k].op = "transition" /\ trace[k].self = "policecar"
    /\ \A k \in DOMAIN trace : trace[k].op # "external"
    /\ state["policecar"] = "PoliceCar.STOPPED"
    /\ RecordedState(publishers, "cyclist", "policecar") = "CHASING"
    /\ RecordedState(call.snap.publishers, "cyclist", "policecar") = "CHASING"

\* The end of the span of trace that starts at entry k and lasts while the
\* frame number n is on the stack.
EndOf(k, n) == IF ReturnOf(k, n) = 0 THEN Len(trace) ELSE ReturnOf(k, n)

(***************************************************************************)
(* C30: the engine never relays an external event onward by itself.  The   *)
(* process_event that handles an external event, and the reaction it       *)
(* calls, deliver nothing: when no reaction matches or the guard rejects,  *)
(* process_event returns at once; otherwise whatever is delivered while it *)
(* runs is delivered by the process_event of an action called from the     *)
(* body.  Every delivery follows, in the frame that makes it, a real       *)
(* transition of the publisher by an action declared broadcast, and        *)
(* carries that action's name and target with the publisher as source.     *)
(***************************************************************************)
C30_ExternalEventIsNotRelayed ==
    /\ \A k \in DOMAIN trace :
          trace[k].op = "external"
          => LET n == trace[k].depth
                 end == EndOf(k, n)
             IN  /\ \A m \in (k + 1)..end :
                       /\ trace[m].depth = n => trace[m].op = "return"
                       /\ trace[m].depth = n + 1 => trace[m].op \in {"guard", "react", "return"}
                       /\ trace[m].op \in {"publish", "deliver"} => trace[m].depth >= n + 3
                 /\ ~trace[k].ok => (end = k + 1 /\ trace[end].op = "return")
                 /\ (trace[k].ok /\ ~trace[k + 1].ok)
                    => (end = k + 3 /\ trace[k + 2].op = "return" /\ trace[end].op = "return")
    /\ \A j \in DOMAIN trace :
          trace[j].op = "deliver"
          => LET n == trace[j].depth
                 S == trace[j].source
                 P == {p \in 1..(j - 1) : /\ trace[p].op = "publish" /\ trace[p].depth = n
                                          /\ EndOf(p, n) >= j}
             IN  /\ P # {}
                 /\ \A p \in P :
                       /\ trace[p].self = S /\ trace[p].name = trace[j].name
                       /\ trace[p].state = trace[j].state
                       /\ p > 1
                       /\ trace[p - 1].op = "transition" /\ trace[p - 1].self = S
                       /\ trace[p - 1].depth = n /\ trace[p - 1].from # trace[p - 1].state
                       /\ trace[p - 1].state = trace[j].state
                       /\ ActionOf(TypeOf[S], trace[p].name).broadcast
                       /\ ActionOf(TypeOf[S], trace[p].name).state = trace[j].state
                       /\ trace[j].self \in consumers[S]

\* gate1, which has consumers of its own, has handled the light's GREEN by
\* lifting, an action that is not broadcast: it has moved, and nothing was
\* delivered by it while the light's call lasted
C30_Witness ==
    /\ "gate1" \in live
    /\ call.self = "trafficlight" /\ call.name = "green" /\ call.status = "returned"
    /\ consumers["gate1"] # {}
    /\ \E k \in DOMAIN trace :
          /\ trace[k].op = "external" /\ trace[k].self = "gate1" /\ trace[k].ok
          /\ trace[k + 1].ok
    /\ \E k \in DOMAIN trace :
          /\ trace[k].op = "transition" /\ trace[k].self = "gate1" /\ trace[k].name = "lift"
    /\ \A k \in DOMAIN trace : trace[k].op = "deliver" => trace[k].source = "trafficlight"

\* The frames of the stack in which instance i processes an event of its
\* own and has got past the check of its target.
AppliedFrames(i) ==
    {m \in DOMAIN stack : /\ stack[m].k = "process" /\ stack[m].self = i
                          /\ stack[m].event.source = i /\ stack[m].pc # "start"}

\* The entries of trace before entry k where instance i moved.
MovesBefore(i, k) ==
    {m \in 1..(k - 1) : trace[m].op = "transition" /\ trace[m].self = i}

(***************************************************************************)
(* C31: within one instance the adjacency check and the assignment of the  *)
(* current state are atomic with respect to all other dispatch.  A         *)
(* process_event that is inside its fan-out assigned its target before any *)
(* deeper frame ran, so a process_event that re-enters the instance finds  *)
(* the current state as the last assignment left it; every transition      *)
(* applied was an edge from the state the instance held at the assignment, *)
(* which is the state its previous transition left it in (or the state it  *)
(* had when the call was made).                                            *)
(***************************************************************************)
C31_CheckAndAssignmentAreAtomic ==
    /\ \A i \in live : \A m \in AppliedFrames(i) :
          /\ \E k \in DOMAIN trace :
                /\ trace[k].op = "transition" /\ trace[k].self = i /\ trace[k].depth = m
                /\ trace[k].state = stack[m].event.state
          /\ LET moves == MovesBefore(i, Len(trace) + 1)
             IN  state[i] = trace[CHOOSE x \in moves : \A y \in moves : y <= x].state
    /\ \A k \in DOMAIN trace :
          LET e == trace[k]
              before == MovesBefore(e.self, k)
              held == IF before = {} THEN call.snap.state[e.self]
                      ELSE trace[CHOOSE x \in before : \A y \in before : y <= x].state
          IN  e.op \in {"noop", "transition", "raise"}
              => /\ e.from = held
                 /\ e.op = "noop" <=> e.state = held
                 /\ e.op = "transition" => Edge(TypeOf[e.self], held, e.state)
                 /\ e.op = "raise" => ~Edge(TypeOf[e.self], held, e.state)

\* in the cycle of a and b, a is entered again while its first to_y is
\* still publishing: it has moved X -> Y and then Y -> X, and the process_event
\* on top, of a third action of a, finds it at X
C31_Witness ==
    /\ run.scenario = "Cycle" /\ stack # << >>
    /\ Top.k = "process" /\ Top.pc = "start" /\ Top.self = "a" /\ Top.event.source = "a"
    /\ Cardinality(AppliedFrames("a")) >= 2
    /\ Cardinality(MovesBefore("a", Len(trace) + 1)) = 2
    /\ state["a"] = "X" /\ Top.event.state = "Y"

\* No call of the driver subscribes c to p.
NeverSubscribes(c, p) == \A w \in Subscriptions : ~(w[1] = c /\ p \in Range(w[2]))

\* The entries of c's log that are events of p.
RelaysFrom(c, p) == {k \in DOMAIN events[c] : events[c][k].source = p}

(***************************************************************************)
(* C32: a consumer that a publisher has only registered (it never          *)
(* subscribes) has no publishers entry for the publisher, and so does not  *)
(* observe the publisher's state, until the first broadcast of the         *)
(* publisher is delivered to it; from that delivery on it has an entry,    *)
(* which holds the state of the last relay and is among the states its     *)
(* guards observe, as for a subscribed publisher.                          *)
(***************************************************************************)
C32_RegisteredOnlyIsTrackedFromFirstRelay ==
    \A c \in live : \A p \in live :
        (p # c /\ NeverSubscribes(c, p))
        => /\ p \in DOMAIN publishers[c] <=> RelaysFrom(c, p) # {}
           /\ RelaysFrom(c, p) = {}
              => /\ RecordedState(publishers, c, p) = None
                 /\ StatesOf[TypeOf[p]] \cap StatesOf[TypeOf[c]] = {}
                    => state[p] \notin ObservedStates(c)
           /\ RelaysFrom(c, p) # {}
              => LET k == CHOOSE x \in RelaysFrom(c, p) : \A y \in RelaysFrom(c, p) : y <= x
                 IN  /\ publishers[c][p] = events[c][k].state
                     /\ publishers[c][p] \in ObservedStates(c)

\* the police car, CHASING, has registered the cyclist, who has had no relay
\* from it: cycle_fast, declared unless = {CHASING}, passes its guard and
\* the cyclist moves
C32_Witness ==
    /\ "cyclist" \in live
    /\ "cyclist" \in consumers["policecar"]
    /\ state["policecar"] = "CHASING"
    /\ "policecar" \notin DOMAIN publishers["cyclist"]
    /\ call.op = "action" /\ call.self = "cyclist" /\ call.name = "cycle_fast"
    /\ call.status = "returned"
    /\ "cyclist" \in call.snap.consumers["policecar"]
    /\ call.snap.state["policecar"] = "CHASING"
    /\ \E k \in DOMAIN trace : trace[k].op = "guard" /\ trace[k].ok
    /\ \E k \in DOMAIN trace : trace[k].op = "transition" /\ trace[k].self = "cyclist"

\* The entries of the sequence steps in which instance i processed an event:
\* one per call of i.process_event that got as far as its branch.
Processed(steps, i) ==
    {k \in DOMAIN steps : /\ steps[k].op \in {"noop", "transition", "raise", "external"}
                          /\ steps[k].self = i}

(***************************************************************************)
(* C33: every call of process_event on an instance appends exactly one     *)
(* event to the instance's log, the event it was called with: an internal  *)
(* event that changes nothing, one that is applied, one that fails with    *)
(* TransitionError and an external event alike.  A call rejected by its    *)
(* guard, a register and a subscribe append nothing.  The log only grows:  *)
(* what it held before a step is a prefix of what it holds after.          *)
(***************************************************************************)
C33_OneLogEntryPerProcessEvent ==
    [][\A i \in live :
          /\ Len(events'[i]) = Len(events[i]) + Cardinality(Processed(NewSteps, i))
          /\ Cardinality(Processed(NewSteps, i)) <= 1
          /\ SubSeq(events'[i], 1, Len(events[i])) = events[i]
          /\ \A k \in Processed(NewSteps, i) :
                LET e == NewSteps[k]
                    last == events'[i][Len(events'[i])]
                IN  /\ last.name = e.name /\ last.state = e.state
                    /\ last.source = IF e.op = "external" THEN e.source ELSE i
          /\ (\E k \in DOMAIN NewSteps :
                 NewSteps[k].op = "guard" /\ NewSteps[k].source = None /\ ~NewSteps[k].ok)
             => events'[i] = events[i]]_vars

\* gate1, registered with itself and with gate2, has locked: its own relay
\* changed nothing, gate2's reaction to it failed to lift gate2, and every
\* process_event of the call, the failed one included, left one log entry
C33_Witness ==
    /\ "gate1" \in live
    /\ call.op = "action" /\ call.status = "raised"
    /\ \A op \in {"transition", "noop", "external", "raise"} :
          \E k \in DOMAIN trace : trace[k].op = op
    /\ \A i \in live :
          Len(events[i]) = Len(call.snap.events[i]) + Cardinality(Processed(trace, i))
    /\ \E i \in live : Cardinality(Processed(trace, i)) = 2

AllBroadcast(type) == \A a \in Range(MachineTypes[type].actions) : a.broadcast

\* No instance reaches itself by following the consumers edges cons.
Acyclic(cons) == \A i \in live : i \notin ReachableFrom(cons[i], cons)

\* c is a consumer of p and has a state of p on record, as it is after
\* c.subscribe([p]), in the sets and dicts cons and pubs.
Tracks(cons, pubs, c, p) == c \in cons[p] /\ p \in DOMAIN pubs[c]

(***************************************************************************)
(* C35: if every action of publisher P is broadcast=True, consumer C has   *)
(* subscribed to P, the consumers graph is acyclic and no call has raised  *)
(* TransitionError, then whenever no action call is in progress            *)
(* C.publishers[P] equals P's current state.  It is so before the first    *)
(* call and when the first call has returned; and a later call that        *)
(* returns and that found it so leaves it so.                              *)
(***************************************************************************)
C35_SubscriberIsUpToDateAtRest ==
    \A c \in live : \A p \in live :
        (/\ stack = << >> /\ Acyclic(consumers)
         /\ AllBroadcast(TypeOf[p]) /\ Tracks(consumers, publishers, c, p))
        => /\ ncalls = 0 => publishers[c][p] = state[p]
           /\ (ncalls = 1 /\ call.op = "action" /\ call.status = "returned")
              => publishers[c][p] = state[p]
           /\ (/\ call.op = "action" /\ call.status = "returned"
               /\ Tracks(call.snap.consumers, call.snap.publishers, c, p)
               /\ call.snap.publishers[c][p] = call.snap.state[p])
              => publishers[c][p] = state[p]

\* the light has been called twice and has moved twice; the cyclist and the
\* police car, subscribed before the calls, have its state on record, the
\* cyclist having no reaction to one of the two states
C35_Witness ==
    /\ "cyclist" \in live
    /\ stack = << >> /\ ncalls = 2 /\ Acyclic(consumers)
    /\ call.op = "action" /\ call.self = "trafficlight" /\ call.status = "returned"
    /\ Len(events["trafficlight"]) = 2
    /\ state["trafficlight"] # call.snap.state["trafficlight"]
    /\ \A c \in {"cyclist", "policecar"} :
          /\ Tracks(call.snap.consumers, call.snap.publishers, c, "trafficlight")
          /\ Len(events[c]) >= 2
          /\ call.snap.publishers[c]["trafficlight"] = call.snap.state["trafficlight"]
          /\ publishers[c]["trafficlight"] = state["trafficlight"]
    /\ state["trafficlight"] = "YELLOW"
    /\ "cyclist" \in consumers["policecar"]

\* The publish_event that made the call of process_event of entry k of
\* trace, an external event: the entry of the publisher's frame, one below.
PublishOf(k) ==
    LET n == trace[k].depth - 1
        P == {p \in 1..(k - 1) : /\ trace[p].op = "publish" /\ trace[p].depth = n
                                 /\ trace[p].self = trace[k].source /\ EndOf(p, n) >= k}
    IN  CHOOSE p \in P : \A q \in P : q <= p

(***************************************************************************)
(* C36: for every publisher P and consumer C, in any wiring, cyclic ones   *)
(* included, C processes P's relay events in the order in which P applied  *)
(* the corresponding transitions, so that the last relay C has processed   *)
(* from P when the call returns carries P's latest state.  (With P in a    *)
(* cycle, P's next transition can be applied and relayed to C inside the   *)
(* delivery to an earlier consumer, before the loop of the first           *)
(* publish_event has come to C.)                                           *)
(***************************************************************************)
C36_AsStated ==
    \A c \in live : \A p \in live :
        /\ \A k1 \in ExternalsOf(c, p) : \A k2 \in ExternalsOf(c, p) :
              k1 < k2 => PublishOf(k1) < PublishOf(k2)
        /\ (call.status = "returned" /\ ExternalsOf(c, p) # {})
           => LET k == CHOOSE x \in ExternalsOf(c, p) : \A y \in ExternalsOf(c, p) : y <= x
              IN  trace[k].state = state[p]

\* leader.step1() has returned: follower1 was served first and followed,
\* the leader took its second step on that and relayed L2 to both followers,
\* and then the first loop delivered L1 to follower2, which has the leader at
\* L1 on record while the leader is at L2
C36_LaterRelayProcessedFirst ==
    /\ run.scenario = "Reentry"
    /\ call.name = "step1" /\ call.status = "returned"
    /\ state["leader"] = "L2"
    /\ [k \in 1..2 |-> events["follower2"][k].state] = << "L2", "L1" >>
    /\ \A k \in 1..2 : events["follower2"][k].source = "leader"
    /\ publishers["follower2"]["leader"] = "L1"
    /\ publishers["follower1"]["leader"] = "L2"

\* The calls of process_event with an external event that are in progress
\* on instance c at the end of trace: entered and not returned.
OpenExternals(c) ==
    {k \in DOMAIN trace : /\ trace[k].op = "external" /\ trace[k].self = c
                          /\ ReturnOf(k, trace[k].depth) = 0}

(***************************************************************************)
(* C37: when a TransitionError is raised inside a consumer's reaction      *)
(* during broadcast fan-out, the publisher's own transition stays applied: *)
(* after the error has reached the caller, the publisher's current state   *)
(* is the target of its action, and the failing consumer's publishers      *)
(* entry for it holds that state.  Nothing any instance did before the     *)
(* raise is undone.                                                        *)
(***************************************************************************)
C37_PublisherKeepsTransitionOnConsumerError ==
    (call.status = "raised")
    => LET c == trace[Len(trace)].self
       IN  /\ \A k \in OpenExternals(c) :
                 LET p == trace[k].source
                     pub == PublishOf(k)
                 IN  /\ trace[pub - 1].op = "transition" /\ trace[pub - 1].self = p
                     /\ trace[pub - 1].state = ActionOf(TypeOf[p], trace[pub].name).state
                     /\ trace[k].state = trace[pub - 1].state
                     /\ publishers[c][p] = trace[k].state
                     /\ (p # c /\ Cardinality(MovesBefore(p, Len(trace))) = 1)
                        => state[p] = trace[k].state /\ state[p] # call.snap.state[p]
           /\ \A i \in live :
                 LET moves == MovesBefore(i, Len(trace))
                 IN  state[i] = IF moves = {} THEN call.snap.state[i]
                                ELSE trace[CHOOSE x \in moves : \A y \in moves : y <= x].state

\* gate1 has locked and its relay made gate2's reaction try a lift that is
\* not permitted: the error has reached the caller, gate1 is LOCKED and gate2
\* has gate1 as LOCKED on record
C37_Witness ==
    /\ "gate1" \in live
    /\ call.op = "action" /\ call.self = "gate1" /\ call.name = "lock"
    /\ call.status = "raised"
    /\ trace[Len(trace)].op = "raise" /\ trace[Len(trace)].self = "gate2"
    /\ \E k \in OpenExternals("gate2") : trace[k].source = "gate1"
    /\ call.snap.state["gate1"] = "DOWN" /\ state["gate1"] = "LOCKED"
    /\ publishers["gate2"]["gate1"] = "LOCKED"
    /\ state["gate2"] = call.snap.state["gate2"]

(***************************************************************************)
(* C38: if the consumers graph is acyclic (no instance reaches itself by   *)
(* following consumers edges; every body calls finitely many actions of    *)
(* its own instance, as all bodies here do), every top-level action        *)
(* invocation terminates: from any state in which a call is in progress    *)
(* the run reaches, after finitely many dispatch steps, a state in which   *)
(* no call is in progress, the call having returned or raised.             *)
(***************************************************************************)
C38_AcyclicCallsTerminate ==
    (stack # << >> /\ Acyclic(consumers))
    ~> (stack = << >> /\ call.status \in {"returned", "raised"})

\* scenario B, whose consumers graph has the edges light -> cyclist,
\* light -> police car and police car -> cyclist, has come to its end: the
\* green() call went seven frames deep and returned
C38_Witness ==
    /\ run.scenario = "B" /\ ncalls = 2
    /\ Acyclic(consumers)
    /\ consumers["policecar"] = {"cyclist"}
    /\ stack = << >> /\ call.status = "returned" /\ call.name = "green"
    /\ \E k \in DOMAIN trace : trace[k].depth >= 7
    /\ \E k \in DOMAIN trace :
          /\ trace[k].op = "external" /\ trace[k].self = "cyclist"
          /\ trace[k].source = "policecar"

(***************************************************************************)
(* C39: if an instance is registered as its own consumer, a broadcast      *)
(* transition delivers the relay to the instance itself as an internal     *)
(* event (its source is the instance): it is processed as a no-op, the     *)
(* current state staying at the target, no reaction runs, the instance     *)
(* gets no publishers entry for itself, the event is appended to the log   *)
(* a second time, and the process_event returns at once, so that the call  *)
(* terminates.                                                             *)
(***************************************************************************)
C39_SelfConsumerRelayIsNoOp ==
    /\ \A i \in live : i \notin DOMAIN publishers[i]
    /\ \A j \in DOMAIN trace :
          (trace[j].op = "deliver" /\ trace[j].self = trace[j].source /\ j < Len(trace))
          => LET i == trace[j].self
                 n == trace[j].depth
                 ev == Event(trace[j].name, i, trace[j].state)
             IN  /\ trace[j + 1].op = "noop" /\ trace[j + 1].self = i
                 /\ trace[j + 1].depth = n + 1
                 /\ trace[j + 1].from = trace[j].state /\ trace[j + 1].state = trace[j].state
                 /\ trace[j + 2].op = "return" /\ trace[j + 2].depth = n + 1
                 /\ Cardinality({k \in DOMAIN events[i] : events[i][k] = ev})
                    >= Cardinality({k \in DOMAIN call.snap.events[i] :
                                       call.snap.events[i][k] = ev}) + 2
                 /\ (Cardinality(MovesBefore(i, Len(trace) + 1)) = 1
                     /\ \A k \in DOMAIN trace : trace[k].op # "raise")
                    => state[i] = trace[j].state

\* gate1, registered with itself and with gate2, has lowered: the relay to
\* itself changed nothing, the call has returned, and its log has the event
\* twice
C39_Witness ==
    /\ "gate1" \in live
    /\ consumers["gate1"] = {"gate1", "gate2"}
    /\ call.op = "action" /\ call.self = "gate1" /\ call.name = "lower"
    /\ call.status = "returned"
    /\ call.snap.events["gate1"] = << >>
    /\ events["gate1"] = << Event("lower", "gate1", "DOWN"), Event("lower", "gate1", "DOWN") >>
    /\ call.snap.state["gate1"] = "UP" /\ state["gate1"] = "DOWN"
    /\ \E j \in DOMAIN trace :
          trace[j].op = "deliver" /\ trace[j].self = "gate1" /\ trace[j].source = "gate1"
    /\ "gate1" \notin DOMAIN publishers["gate1"]
====
